---- MODULE Spec2Model ----
(***************************************************************************)
(* A model of the OFDM resource-grid subsystem of sionna.phy.ofdm:         *)
(* ResourceGrid, PilotPattern (Empty / Kronecker / explicit),              *)
(* ResourceGridMapper, ResourceGridDemapper and RemoveNulledSubcarriers.   *)
(*                                                                         *)
(* Tensors are records [shape, data]: shape is the sequence of dimension   *)
(* lengths and data the row-major flattening.  Python and TensorFlow index *)
(* from 0; TLA+ sequences from 1, so a 0-based flat index i is data[i+1].  *)
(* An operation that can raise returns [ok |-> FALSE] instead of a value.  *)
(***************************************************************************)
EXTENDS Integers, Sequences, FiniteSets, TLC

(***************************************************************************)
(* Bounds of the model.                                                    *)
(***************************************************************************)
MaxSym == 2
MaxFFT == 5
MaxTx == 2
MaxStreams == 2
MaxBatch == 2
MaxPilots == 2
MaxDataDim == 2

MaxFFTCalls == 3

MaxLift == 4

MaxM == 5

MaxCP == 2

MaxLen == 8

(***************************************************************************)
(* Arithmetic and sequence helpers.                                        *)
(***************************************************************************)
Min(a, b) == IF a < b THEN a ELSE b

Max(a, b) == IF a > b THEN a ELSE b

RECURSIVE Gcd(_, _)
Gcd(a, b) == IF b = 0 THEN a ELSE Gcd(b, a % b)

\* s[a] + ... + s[b], by halves.
RECURSIVE SumRange(_, _, _)
SumRange(s, a, b) ==
    IF a > b THEN 0
    ELSE IF a = b THEN s[a]
    ELSE SumRange(s, a, (a + b) \div 2) + SumRange(s, ((a + b) \div 2) + 1, b)

SumSeq(s) == SumRange(s, 1, Len(s))

RECURSIVE Prod(_)
Prod(s) == IF s = <<>> THEN 1 ELSE Head(s) * Prod(Tail(s))

\* range(a, b): a, a+1, ..., b-1 (empty when b <= a)
Range(a, b) == [i \in 1..Max(b - a, 0) |-> a + i - 1]

\* Python's clamping of a slice bound i on a sequence of length n.
PySliceBound(i, n) == IF i < 0 THEN Max(i + n, 0) ELSE Min(i, n)

\* seq[:i] and seq[i:] of Python.
PyTake(s, i) == SubSeq(s, 1, PySliceBound(i, Len(s)))

PyDrop(s, i) == SubSeq(s, PySliceBound(i, Len(s)) + 1, Len(s))

(***************************************************************************)
(* Tensors.                                                                *)
(***************************************************************************)
Tensor(shape, data) == [shape |-> shape, data |-> data]

Fill(shape, v) == Tensor(shape, [i \in 1..Prod(shape) |-> v])

Rank(T) == Len(T.shape)

\* Row-major flat index (0-based) of the 0-based multi-index idx.
RECURSIVE Ravel(_, _)
Ravel(idx, shape) ==
    IF shape = <<>> THEN 0
    ELSE Head(idx) * Prod(Tail(shape)) + Ravel(Tail(idx), Tail(shape))

\* The 0-based multi-index of the 0-based flat index i.
RECURSIVE Unravel(_, _)
Unravel(i, shape) ==
    IF shape = <<>> THEN <<>>
    ELSE LET p == Prod(Tail(shape))
         IN <<i \div p>> \o Unravel(i % p, Tail(shape))

At(T, idx) == T.data[Ravel(idx, T.shape) + 1]

\* tf.reshape / np.reshape to a shape with the same number of elements.
Reshape(T, shape) == Tensor(shape, T.data)

\* The row-major strides of a shape.
Strides(shape) ==
    [j \in 1..Len(shape) |-> Prod(SubSeq(shape, j + 1, Len(shape)))]

\* Coordinate j (1-based axis) of the 0-based flat index i.
Coord(i, shape, strides, j) == (i \div strides[j]) % shape[j]

\* tf.transpose(T, perm): output axis j is input axis perm[j] (0-based axes).
Transpose(T, perm) ==
    LET n == Rank(T)
        shp == [j \in 1..n |-> T.shape[perm[j] + 1]]
        so == Strides(shp)
        si == Strides(T.shape)
        RECURSIVE Src(_, _)
        Src(i, j) == IF j > n THEN 0
                     ELSE Coord(i, shp, so, j) * si[perm[j] + 1] + Src(i, j + 1)
    IN Tensor(shp, [i \in 1..Prod(shp) |-> T.data[Src(i - 1, 1) + 1]])

\* A gather that takes the first len(ind) positions along the axis, in their
\* order, whatever the indices are.
GatherInOrder(T, ind, axis) ==
    LET n == Rank(T)
        shp == [j \in 1..n |-> IF j = axis + 1 THEN Len(ind) ELSE T.shape[j]]
        so == Strides(shp)
        si == Strides(T.shape)
        RECURSIVE Src(_, _)
        Src(i, j) ==
            IF j > n THEN 0 ELSE Coord(i, shp, so, j) * si[j] + Src(i, j + 1)
    IN Tensor(shp, [i \in 1..Prod(shp) |-> T.data[Src(i - 1, 1) + 1]])

\* tf.gather(T, ind, axis): ind are 0-based positions along the axis.
Gather(T, ind, axis) ==
    LET n == Rank(T)
        shp == [j \in 1..n |-> IF j = axis + 1 THEN Len(ind) ELSE T.shape[j]]
        so == Strides(shp)
        si == Strides(T.shape)
        RECURSIVE Src(_, _)
        Src(i, j) ==
            IF j > n THEN 0
            ELSE (IF j = axis + 1 THEN ind[Coord(i, shp, so, j) + 1]
                                  ELSE Coord(i, shp, so, j)) * si[j]
                 + Src(i, j + 1)
    IN Tensor(shp, [i \in 1..Prod(shp) |-> T.data[Src(i - 1, 1) + 1]])

\* flatten_last_dims(T, num_dims): merge the last num_dims axes into one.
flatten_last_dims(T, num_dims) ==
    LET n == Rank(T)
    IN Reshape(T, SubSeq(T.shape, 1, n - num_dims)
                  \o <<Prod(SubSeq(T.shape, n - num_dims + 1, n))>>)

\* flatten_dims(T, num_dims, axis): merge num_dims axes starting at axis.
flatten_dims(T, num_dims, axis) ==
    LET n == Rank(T)
    IN Reshape(T, SubSeq(T.shape, 1, axis)
                  \o <<Prod(SubSeq(T.shape, axis + 1, axis + num_dims))>>
                  \o SubSeq(T.shape, axis + num_dims + 1, n))

\* split_dim(T, shape, axis): split one axis into the axes of shape.
split_dim(T, shape, axis) ==
    Reshape(T, SubSeq(T.shape, 1, axis) \o shape
               \o SubSeq(T.shape, axis + 2, Rank(T)))

\* tf.expand_dims(T, -1)
expand_dims(T) == Reshape(T, T.shape \o <<1>>)

\* tf.squeeze(T, -1) of a tensor whose last axis has length 1
squeeze(T) == Reshape(T, SubSeq(T.shape, 1, Rank(T) - 1))

\* tf.where(T == v): the positions holding v in row-major order, as 0-based
\* flat indices.
RECURSIVE WhereFrom(_, _, _)
WhereFrom(data, v, i) ==
    IF i > Len(data) THEN <<>>
    ELSE (IF data[i] = v THEN <<i - 1>> ELSE <<>>) \o WhereFrom(data, v, i + 1)

Where(T, v) == WhereFrom(T.data, v, 1)

(***************************************************************************)
(* Values carried by pilots, data and grids.  A value is a 4-tuple:        *)
(*   <<0,0,0,0>>      the complex number 0                                 *)
(*   <<1,b,n,0>>      the n-th data symbol of batch element b              *)
(*   <<2,v,p,q>>      constellation point v (unit energy) divided by       *)
(*                    sqrt(p/q), p/q in lowest terms                       *)
(*   <<3,0,0,0>>      NaN                                                  *)
(* A stored pilot is a point number: 0 is the complex 0, 1..NumPoints the  *)
(* QPSK points.                                                            *)
(***************************************************************************)
ZeroVal == <<0, 0, 0, 0>>

NaNVal == <<3, 0, 0, 0>>

DataVal(b, n) == <<1, b, n, 0>>

NumBitsPerSymbol == 2

NumPoints == 2 ^ NumBitsPerSymbol

\* The q-th symbol (0-based) that the c-th call (0-based) of a QAMSource
\* seeded with seed returns: a pseudo-random, never zero, QPSK point.
QAMSource(seed, c, q) == 1 + ((seed + 3 * c + (seed + 1) * q) % NumPoints)

(***************************************************************************)
(* PilotPattern: [mask, pilots, normalize].                                *)
(***************************************************************************)
Int32Max == 2147483647

Int32Min == -Int32Max - 1

\* tf.reduce_sum(mask, axis=(-2,-1)) of a rank-4 mask: the set entries of each
\* (tx, stream), as a sequence over the linear stream index.
MaskCounts(mask) ==
    LET per == mask.shape[3] * mask.shape[4]
    IN [i \in 1..(mask.shape[1] * mask.shape[2]) |->
          SumSeq(SubSeq(mask.data, (i - 1) * per + 1, i * per))]

\* tf.reduce_min / tf.reduce_max of an int32 tensor (of an empty one: the
\* largest / smallest int32).
ReduceMin(s) ==
    IF Len(s) = 0 THEN Int32Max
    ELSE CHOOSE m \in {s[i] : i \in 1..Len(s)} : \A j \in 1..Len(s) : m <= s[j]

ReduceMax(s) ==
    IF Len(s) = 0 THEN Int32Min
    ELSE CHOOSE m \in {s[i] : i \in 1..Len(s)} : \A j \in 1..Len(s) : m >= s[j]

\* The pilot-pattern value of an operation that raised.
NoPP == [mask |-> Fill(<<0>>, 0), pilots |-> Fill(<<0>>, 0),
         normalize |-> FALSE]

\* PilotPattern.num_pilot_symbols: tf.shape(self._pilots)[-1]
PP_num_pilot_symbols(pp) == pp.pilots.shape[Rank(pp.pilots)]

\* PilotPattern.num_data_symbols
PP_num_data_symbols(pp) ==
    pp.mask.shape[Rank(pp.mask)] * pp.mask.shape[Rank(pp.mask) - 1]
    - PP_num_pilot_symbols(pp)

\* A validation that does not compare the streams' numbers of set mask
\* entries with each other.
PP_check_settings_max_only(pp) ==
    /\ Rank(pp.mask) = 4
    /\ Rank(pp.pilots) = 3
    /\ SubSeq(pp.mask.shape, 1, 2) = SubSeq(pp.pilots.shape, 1, 2)
    /\ PP_num_pilot_symbols(pp) = ReduceMax(MaskCounts(pp.mask))

\* PilotPattern._check_settings: TRUE when no assertion fails.
PP_check_settings(pp) ==
    /\ Rank(pp.mask) = 4
    /\ Rank(pp.pilots) = 3
    /\ SubSeq(pp.mask.shape, 1, 2) = SubSeq(pp.pilots.shape, 1, 2)
    /\ ReduceMin(MaskCounts(pp.mask)) = ReduceMax(MaskCounts(pp.mask))
    /\ PP_num_pilot_symbols(pp) = ReduceMax(MaskCounts(pp.mask))

\* PilotPattern.pilots (setter): stores the value, with no validation.
PP_set_pilots(pp, v) == [pp EXCEPT !.pilots = v]

\* PilotPattern.normalize (setter)
PP_set_normalize(pp, value) == [pp EXCEPT !.normalize = value]

\* PilotPattern.__init__: [ok, pp]
PilotPatternInit(mask, pilots, normalize) ==
    LET pp == PP_set_normalize(
                  PP_set_pilots([mask |-> mask, pilots |-> pilots,
                                 normalize |-> FALSE], pilots),
                  normalize)
    IN [ok |-> PP_check_settings(pp), pp |-> pp]

\* PilotPattern.pilots (getter): the stored pilots as values, each row of the
\* last axis divided by the square root of its mean energy when normalize is
\* set.  The stored pilots are not changed.
PP_pilots(pp) ==
    LET n == PP_num_pilot_symbols(pp)
        row(i) == SubSeq(pp.pilots.data, (((i - 1) \div n) * n) + 1,
                         (((i - 1) \div n) * n) + n)
        energy(i) == Cardinality({k \in 1..n : row(i)[k] # 0})
        val(i) ==
            LET v == pp.pilots.data[i]
            IN IF ~pp.normalize
               THEN (IF v = 0 THEN ZeroVal ELSE <<2, v, 1, 1>>)
               ELSE IF energy(i) = 0 THEN NaNVal
               ELSE IF v = 0 THEN ZeroVal
               ELSE LET g == Gcd(energy(i), n)
                    IN <<2, v, energy(i) \div g, n \div g>>
    IN Tensor(pp.pilots.shape, [i \in 1..Len(pp.pilots.data) |-> val(i)])

\* A getter that switches normalisation off once it has been applied.
PP_after_pilots_normalize_once(pp) == [pp EXCEPT !.normalize = FALSE]

\* PilotPattern.pilots (getter), its effect on the object: norm_pilots
\* multiplies self._pilots by the scale into a new tensor and assigns no
\* attribute, so the PilotPattern after the read is the one before it.
PP_after_pilots(pp) == pp

\* EmptyPilotPattern.__init__: [ok, pp]
EmptyPilotPattern(num_tx, num_streams_per_tx, num_ofdm_symbols, num_eff) ==
    IF /\ num_tx > 0
       /\ num_streams_per_tx > 0
       /\ num_ofdm_symbols > 0
       /\ num_eff > 0
    THEN LET shape == <<num_tx, num_streams_per_tx, num_ofdm_symbols, num_eff>>
         IN PilotPatternInit(Fill(shape, 0),
                             Fill(SubSeq(shape, 1, 2) \o <<0>>, 0), FALSE)
    ELSE [ok |-> FALSE, pp |-> NoPP]

(***************************************************************************)
(* ResourceGrid: a record of the constructor's fields and pilot_pattern.   *)
(***************************************************************************)
\* A count of the effective subcarriers that keeps the nulled DC subcarrier.
num_effective_subcarriers_keep_dc(rg) ==
    rg.fft_size - SumSeq(rg.num_guard_carriers)

\* A count of the effective subcarriers that forgets the guard carriers.
num_effective_subcarriers_no_guards(rg) ==
    rg.fft_size - (IF rg.dc_null THEN 1 ELSE 0)

\* ResourceGrid.num_effective_subcarriers
num_effective_subcarriers(rg) ==
    rg.fft_size - (IF rg.dc_null THEN 1 ELSE 0) - SumSeq(rg.num_guard_carriers)

\* ResourceGrid.dc_ind: int(fft_size/2 - (fft_size%2==1)/2)
dc_ind(rg) ==
    IF rg.fft_size % 2 = 1 THEN (rg.fft_size - 1) \div 2 ELSE rg.fft_size \div 2

\* np.delete(s, i): [ok, val]; an index outside [-len, len) raises IndexError.
NpDelete(s, i) ==
    LET n == Len(s)
        j == IF i < 0 THEN i + n ELSE i
    IN IF i < -n \/ i >= n THEN [ok |-> FALSE, val |-> <<>>]
       ELSE [ok |-> TRUE, val |-> SubSeq(s, 1, j) \o SubSeq(s, j + 2, n)]

\* ResourceGrid.effective_subcarrier_ind: [ok, val]
effective_subcarrier_ind(rg) ==
    LET num_gc == rg.num_guard_carriers
        sc_ind == Range(num_gc[1], rg.fft_size - num_gc[2])
    IN IF rg.dc_null THEN NpDelete(sc_ind, dc_ind(rg) - num_gc[1])
       ELSE [ok |-> TRUE, val |-> sc_ind]

\* A divisibility test that never fails.
IsMultipleAlways(d, n) == TRUE

\* Whether d is an integer multiple of n, as (d/n) % 1 == 0 decides it.
IsMultiple(d, n) == \E q \in -(Max(d, -d))..Max(d, -d) : q * n = d

\* A comb that starts one subcarrier per transmitter and per stream, so that
\* streams of different transmitters share offsets.
comb_start_sum(i, j, num_streams_per_tx) == i + j

\* The first subcarrier of the comb of stream j of transmitter i:
\* pilots[i,j,:,i*num_streams_per_tx+j::num_seq] = p
comb_start(i, j, num_streams_per_tx) == i * num_streams_per_tx + j

\* KroneckerPilotPattern.__init__: [ok, pp]
KroneckerPilotPattern(rg, pilot_ofdm_symbol_indices, normalize, seed) ==
    LET num_tx == rg.num_tx
        num_streams_per_tx == rg.num_streams_per_tx
        num_ofdm_symbols == rg.num_ofdm_symbols
        K == num_effective_subcarriers(rg)
        num_pilot_symbols == Len(pilot_ofdm_symbol_indices)
        num_seq == num_tx * num_streams_per_tx
        \* num_pilots = num_pilot_symbols*K/num_seq; the assertion tests
        \* (num_pilots/num_pilot_symbols) % 1 == 0
        divisible == IsMultiple(num_pilot_symbols * K,
                                num_seq * num_pilot_symbols)
        num_pilots_per_symbol == K \div num_seq
        rows == {IF pilot_ofdm_symbol_indices[a] < 0
                 THEN pilot_ofdm_symbol_indices[a] + num_ofdm_symbols
                 ELSE pilot_ofdm_symbol_indices[a] : a \in 1..num_pilot_symbols}
        mshape == <<num_tx, num_streams_per_tx, num_ofdm_symbols, K>>
        mask == Tensor(mshape, [n \in 1..Prod(mshape) |->
                    IF Unravel(n - 1, mshape)[3] \in rows THEN 1 ELSE 0])
        pshape == <<num_tx, num_streams_per_tx, num_pilot_symbols, K>>
        pilot(idx) ==
            LET lin == idx[1] * num_streams_per_tx + idx[2]
                start == comb_start(idx[1], idx[2], num_streams_per_tx)
            IN IF idx[4] >= start /\ (idx[4] - start) % num_seq = 0
               THEN QAMSource(seed, lin, idx[3] * num_pilots_per_symbol
                                         + (idx[4] - start) \div num_seq)
               ELSE 0
        pilots == Tensor(pshape, [n \in 1..Prod(pshape) |->
                                     pilot(Unravel(n - 1, pshape))])
    IN IF \/ num_seq = 0                      \* ZeroDivisionError
          \/ num_pilot_symbols = 0            \* ZeroDivisionError
          \/ ~divisible                       \* AssertionError
          \/ \E d \in 1..4 : mshape[d] < 0    \* np.zeros: ValueError
          \/ \E a \in 1..num_pilot_symbols :  \* IndexError
                \/ pilot_ofdm_symbol_indices[a] >= num_ofdm_symbols
                \/ pilot_ofdm_symbol_indices[a] < -num_ofdm_symbols
       THEN [ok |-> FALSE, pp |-> NoPP]
       ELSE PilotPatternInit(mask,
                Reshape(pilots, <<num_tx, num_streams_per_tx,
                                  num_pilot_symbols * K>>),
                normalize)

\* ResourceGrid.pilot_pattern (setter): [ok, rg].  value is [kind, obj]:
\* kind "None", "empty", "kronecker" or "instance" (obj a PilotPattern).
RG_set_pilot_pattern(rg, value) ==
    LET empty == EmptyPilotPattern(rg.num_tx, rg.num_streams_per_tx,
                                   rg.num_ofdm_symbols,
                                   num_effective_subcarriers(rg))
        kron == KroneckerPilotPattern(rg, rg.pilot_ofdm_symbol_indices.val,
                                      TRUE, 0)
        made == CASE value.kind = "None" -> empty
                  [] value.kind = "instance" -> [ok |-> TRUE, pp |-> value.obj]
                  [] value.kind = "empty" -> empty
                  [] value.kind = "kronecker" ->
                        IF rg.pilot_ofdm_symbol_indices.isNone
                        THEN [ok |-> FALSE, pp |-> NoPP]
                        ELSE kron
                  [] OTHER -> [ok |-> FALSE, pp |-> NoPP]
    IN [ok |-> made.ok,
        rg |-> IF made.ok THEN [rg EXCEPT !.pilot_pattern = made.pp] ELSE rg]

\* A validation that lets a cyclic prefix longer than fft_size through.
RG_check_settings_any_prefix(rg) ==
    /\ rg.num_ofdm_symbols > 0
    /\ rg.fft_size > 0
    /\ rg.cyclic_prefix_length >= 0
    /\ rg.num_tx > 0
    /\ rg.num_streams_per_tx > 0
    /\ Len(rg.num_guard_carriers) = 2
    /\ \A i \in 1..Len(rg.num_guard_carriers) : rg.num_guard_carriers[i] >= 0
    /\ SumSeq(rg.num_guard_carriers)
          <= rg.fft_size - (IF rg.dc_null THEN 1 ELSE 0)

\* ResourceGrid._check_settings: TRUE when no assertion fails.
RG_check_settings(rg) ==
    /\ rg.num_ofdm_symbols > 0
    /\ rg.fft_size > 0
    /\ rg.cyclic_prefix_length >= 0
    /\ rg.cyclic_prefix_length <= rg.fft_size
    /\ rg.num_tx > 0
    /\ rg.num_streams_per_tx > 0
    /\ Len(rg.num_guard_carriers) = 2
    /\ \A i \in 1..Len(rg.num_guard_carriers) : rg.num_guard_carriers[i] >= 0
    /\ SumSeq(rg.num_guard_carriers)
          <= rg.fft_size - (IF rg.dc_null THEN 1 ELSE 0)

\* ResourceGrid.__init__: [ok, rg] from the constructor's arguments a.
ResourceGridInit(a) ==
    LET fields == [num_ofdm_symbols |-> a.num_ofdm_symbols,
                   fft_size |-> a.fft_size,
                   subcarrier_spacing |-> a.subcarrier_spacing,
                   cyclic_prefix_length |-> a.cyclic_prefix_length,
                   num_tx |-> a.num_tx,
                   num_streams_per_tx |-> a.num_streams_per_tx,
                   num_guard_carriers |-> a.num_guard_carriers,
                   dc_null |-> a.dc_null,
                   pilot_ofdm_symbol_indices |-> a.pilot_ofdm_symbol_indices,
                   pilot_pattern |-> NoPP]
        set == RG_set_pilot_pattern(fields, a.pilot_pattern)
    IN [ok |-> set.ok /\ RG_check_settings(set.rg), rg |-> set.rg]

\* ResourceGrid.num_pilot_symbols
RG_num_pilot_symbols(rg) == PP_num_pilot_symbols(rg.pilot_pattern)

\* ResourceGrid.num_data_symbols
RG_num_data_symbols(rg) ==
    num_effective_subcarriers(rg) * rg.num_ofdm_symbols
    - RG_num_pilot_symbols(rg)

\* ResourceGrid.num_resource_elements
RG_num_resource_elements(rg) == rg.fft_size * rg.num_ofdm_symbols

\* ResourceGrid.num_zero_symbols
RG_num_zero_symbols(rg) ==
    (rg.fft_size - num_effective_subcarriers(rg)) * rg.num_ofdm_symbols

\* tf.concat along the last axis of the rows of a [.., w1] and a [.., w2]
\* tensor with equal leading dimensions.
ConcatLast(A, B) ==
    LET lead == SubSeq(A.shape, 1, Rank(A) - 1)
        wa == A.shape[Rank(A)]
        wb == B.shape[Rank(B)]
        w == wa + wb
    IN Tensor(lead \o <<w>>,
              [i \in 1..(Prod(lead) * w) |->
                  LET r == (i - 1) \div w
                      c == (i - 1) % w
                  IN IF c < wa THEN A.data[r * wa + c + 1]
                     ELSE B.data[r * wb + (c - wa) + 1]])

\* mask[..., :i] and mask[..., i:]
SliceLastTo(T, i) ==
    LET w == T.shape[Rank(T)]
    IN Gather(T, Range(0, PySliceBound(i, w)), Rank(T) - 1)

\* mask[..., i+1:], which loses column i.
SliceLastAfter(T, i) ==
    LET w == T.shape[Rank(T)]
    IN Gather(T, Range(PySliceBound(i + 1, w), w), Rank(T) - 1)

SliceLastFrom(T, i) ==
    LET w == T.shape[Rank(T)]
    IN Gather(T, Range(PySliceBound(i, w), w), Rank(T) - 1)

\* ResourceGrid.build_type_grid: [ok, val]; tf.concat raises when the mask's
\* leading dimensions are not [num_tx, num_streams_per_tx, num_ofdm_symbols].
build_type_grid(rg) ==
    LET shape == <<rg.num_tx, rg.num_streams_per_tx, rg.num_ofdm_symbols>>
        gc_l == Fill(shape \o <<rg.num_guard_carriers[1]>>, 2)
        gc_r == Fill(shape \o <<rg.num_guard_carriers[2]>>, 2)
        dc == Fill(shape \o <<IF rg.dc_null THEN 1 ELSE 0>>, 3)
        mask == rg.pilot_pattern.mask
        split_ind == dc_ind(rg) - rg.num_guard_carriers[1]
    IN IF Rank(mask) # 4 \/ SubSeq(mask.shape, 1, 3) # shape
       THEN [ok |-> FALSE, val |-> Fill(<<0>>, 0)]
       ELSE [ok |-> TRUE,
             val |-> ConcatLast(ConcatLast(ConcatLast(ConcatLast(
                        gc_l, SliceLastTo(mask, split_ind)), dc),
                        SliceLastFrom(mask, split_ind)), gc_r)]

(***************************************************************************)
(* ResourceGridMapper: [rg_type, pilot_ind, data_ind], the tables computed *)
(* once by __init__; call reads the grid's pilot pattern as it is then.    *)
(***************************************************************************)
NoTensor == Fill(<<0>>, 0)

\* The 1-based place of v in the duplicate-free sequence s, 0 when absent.
PlaceOf(s, v) ==
    IF \E j \in 1..Len(s) : s[j] = v
    THEN CHOOSE j \in 1..Len(s) : s[j] = v
    ELSE 0

\* ResourceGridMapper.__init__: [ok, m]
MapperInit(rg) ==
    LET t == build_type_grid(rg)
    IN [ok |-> t.ok,
        m |-> [rg_type |-> t.val,
               pilot_ind |-> IF t.ok THEN Where(t.val, 1) ELSE <<>>,
               data_ind |-> IF t.ok THEN Where(t.val, 0) ELSE <<>>]]

\* A template that is left empty: no pilot is written.
scatter_nd_nothing(indices, updates, shape) == Fill(shape, ZeroVal)

\* tf.scatter_nd(indices, updates, shape) for duplicate-free indices
scatter_nd(indices, updates, shape) ==
    Tensor(shape, [i \in 1..Prod(shape) |->
                      LET j == PlaceOf(indices, i - 1)
                      IN IF j = 0 THEN ZeroVal ELSE updates[j]])

\* tf.broadcast_to of a [.., 1] tensor to [.., n]
broadcast_last(T, n) ==
    Tensor(SubSeq(T.shape, 1, Rank(T) - 1) \o <<n>>,
           [i \in 1..(Len(T.data) * n) |-> T.data[((i - 1) \div n) + 1]])

\* A scatter update that hands the updates to the indices in reverse order.
tensor_scatter_nd_update_reversed(T, indices, updates) ==
    LET n == T.shape[Rank(T)]
    IN Tensor(T.shape, [i \in 1..Len(T.data) |->
                  LET j == PlaceOf(indices, (i - 1) \div n)
                  IN IF j = 0 THEN T.data[i]
                     ELSE updates.data[(Len(indices) - j) * n
                                       + ((i - 1) % n) + 1]])

\* tf.tensor_scatter_nd_update(T, indices, updates): T is [.., n], indices
\* address the leading axes (0-based flat), updates is [len(indices), n].
tensor_scatter_nd_update(T, indices, updates) ==
    LET n == T.shape[Rank(T)]
    IN Tensor(T.shape, [i \in 1..Len(T.data) |->
                  LET j == PlaceOf(indices, (i - 1) \div n)
                  IN IF j = 0 THEN T.data[i]
                     ELSE updates.data[(j - 1) * n + ((i - 1) % n) + 1]])

\* ResourceGridMapper.call: [ok, val]; the scatters raise when the number of
\* updates differs from the number of indices.
MapperCall(m, rg, inputs) ==
    LET pilots == flatten_last_dims(PP_pilots(rg.pilot_pattern), 3)
        template == expand_dims(
                        scatter_nd(m.pilot_ind, pilots.data, m.rg_type.shape))
        batch_size == inputs.shape[1]
        wide == broadcast_last(template, batch_size)
        flat == Transpose(flatten_last_dims(inputs, 3), <<1, 0>>)
        out == tensor_scatter_nd_update(wide, m.data_ind, flat)
    IN IF \/ Rank(rg.pilot_pattern.pilots) # 3
          \/ Len(pilots.data) # Len(m.pilot_ind)
          \/ Rank(inputs) # 4
          \/ flat.shape[1] # Len(m.data_ind)
       THEN [ok |-> FALSE, val |-> NoTensor]
       ELSE [ok |-> TRUE, val |-> Transpose(out, <<4, 0, 1, 2, 3>>)]

(***************************************************************************)
(* ResourceGridDemapper: [data_ind, sm]; sm is the StreamManagement        *)
(* [stream_ind, num_tx, num_streams_per_tx].                               *)
(***************************************************************************)
\* A sort that puts the ones first.
argsort_descending(row) == WhereFrom(row, 1, 1) \o WhereFrom(row, 0, 1)

\* tf.argsort(row, direction="ASCENDING") of a 0/1 row (a stable sort): the
\* 0-based positions of the zeros, ascending, then those of the ones.
argsort(row) == WhereFrom(row, 0, 1) \o WhereFrom(row, 1, 1)

\* ResourceGridDemapper.__init__
DemapperInit(rg, sm) ==
    LET mask == flatten_last_dims(rg.pilot_pattern.mask, 2)
        n == mask.shape[3]
        num_data_symbols == PP_num_data_symbols(rg.pilot_pattern)
        rows == mask.shape[1] * mask.shape[2]
        kept == PySliceBound(num_data_symbols, n)
        sorted(r) == argsort(SubSeq(mask.data, (r - 1) * n + 1, r * n))
    IN [data_ind |->
            Tensor(<<mask.shape[1], mask.shape[2], kept>>,
                   [i \in 1..(rows * kept) |->
                       sorted(((i - 1) \div kept) + 1)[((i - 1) % kept) + 1]]),
        sm |-> sm]

\* tf.gather(y, indices, batch_dims=2, axis=2):
\* out[t, s, j, ...] = y[t, s, indices[t, s, j], ...]
gather_batch2(y, indices) ==
    LET n == Rank(y)
        shp == [a \in 1..n |-> IF a = 3 THEN indices.shape[3] ELSE y.shape[a]]
        so == Strides(shp)
        si == Strides(y.shape)
        RECURSIVE Src(_, _)
        Src(i, j) ==
            IF j > n THEN 0
            ELSE (IF j = 3
                  THEN At(indices, <<Coord(i, shp, so, 1), Coord(i, shp, so, 2),
                                     Coord(i, shp, so, 3)>>)
                  ELSE Coord(i, shp, so, j)) * si[j]
                 + Src(i, j + 1)
    IN Tensor(shp, [i \in 1..Prod(shp) |-> y.data[Src(i - 1, 1) + 1]])

\* ResourceGridDemapper.call: [ok, val]
DemapperCall(d, rg, y0) ==
    LET y1 == IF Rank(y0) = 5 THEN expand_dims(y0) ELSE y0
        esi == effective_subcarrier_ind(rg)
        y2 == Gather(y1, esi.val, 4)
        y3 == Transpose(y2, <<1, 2, 3, 4, 5, 0>>)
        y4 == flatten_dims(y3, 2, 0)
        stream_ind == d.sm.stream_ind
        y5 == Gather(y4, stream_ind, 0)
        y6 == split_dim(y5, <<d.sm.num_tx, d.sm.num_streams_per_tx>>, 0)
        y7 == flatten_dims(y6, 2, 2)
        y8 == gather_batch2(y7, d.data_ind)
        y9 == Transpose(y8, <<4, 0, 1, 2, 3>>)
    IN IF \/ ~(Rank(y1) = 6)
          \/ ~esi.ok
          \/ \E k \in 1..Len(esi.val) : esi.val[k] >= y1.shape[5]
          \/ \E k \in 1..Len(stream_ind) :
                stream_ind[k] < 0 \/ stream_ind[k] >= y4.shape[1]
          \/ Len(stream_ind) # d.sm.num_tx * d.sm.num_streams_per_tx
          \/ SubSeq(d.data_ind.shape, 1, 2) # SubSeq(y7.shape, 1, 2)
          \/ \E k \in 1..Len(d.data_ind.data) : d.data_ind.data[k] >= y7.shape[3]
       THEN [ok |-> FALSE, val |-> NoTensor]
       ELSE [ok |-> TRUE,
             val |-> IF y9.shape[Rank(y9)] = 1 THEN squeeze(y9) ELSE y9]

(***************************************************************************)
(* RemoveNulledSubcarriers: [ok, sc_ind] computed once by __init__.        *)
(***************************************************************************)
\* A remover that keeps the DC subcarrier: only the guards are left out.
RemoverInitKeepDC(rg) ==
    [ok |-> TRUE,
     sc_ind |-> Range(rg.num_guard_carriers[1],
                      rg.fft_size - rg.num_guard_carriers[2])]

\* RemoveNulledSubcarriers.__init__: [ok, sc_ind]
RemoverInit(rg) ==
    LET esi == effective_subcarrier_ind(rg)
    IN [ok |-> esi.ok, sc_ind |-> esi.val]

\* RemoveNulledSubcarriers.call: [ok, val]
RemoverCall(r, inputs) ==
    IF \E k \in 1..Len(r.sc_ind) : r.sc_ind[k] >= inputs.shape[Rank(inputs)]
    THEN [ok |-> FALSE, val |-> NoTensor]
    ELSE [ok |-> TRUE, val |-> Gather(inputs, r.sc_ind, Rank(inputs) - 1)]

(***************************************************************************)
(* The state: the constructor arguments of a ResourceGrid, the objects     *)
(* built from it, the tensors passed through them, a PilotPattern built on *)
(* its own, a call of a function of the Polar code utilities with its      *)
(* result, an OFDMDemodulator and a BinaryMemorylessChannel.  An object is *)
(* [st, ...] with st "none" before its constructor ran, "ok" after it      *)
(* returned and "error" after it raised.                                   *)
(***************************************************************************)
VARIABLES args, rg, mapper, x, rg_out, demapper, y, remover, z, pat, fec,
          ofdm, chan

vars == <<args, rg, mapper, x, rg_out, demapper, y, remover, z, pat, fec,
          ofdm, chan>>

NoIndices == [isNone |-> TRUE, val |-> <<>>]

Indices(s) == [isNone |-> FALSE, val |-> s]

NoRG == [num_ofdm_symbols |-> 0, fft_size |-> 0, subcarrier_spacing |-> 0,
         cyclic_prefix_length |-> 0, num_tx |-> 0, num_streams_per_tx |-> 0,
         num_guard_carriers |-> <<>>, dc_null |-> FALSE,
         pilot_ofdm_symbol_indices |-> NoIndices, pilot_pattern |-> NoPP]

NoMapper == [rg_type |-> NoTensor, pilot_ind |-> <<>>, data_ind |-> <<>>]

NoSM == [stream_ind |-> <<>>, num_tx |-> 0, num_streams_per_tx |-> 0]

NoDemapper == [data_ind |-> NoTensor, sm |-> NoSM]

NoResult == [st |-> "none", val |-> NoTensor]

Result(r) == [st |-> IF r.ok THEN "ok" ELSE "error", val |-> r.val]

Policy(kind) == [kind |-> kind, obj |-> NoPP]

Instance(pp) == [kind |-> "instance", obj |-> pp]

\* An explicit PilotPattern of the shape of a grid with K effective
\* subcarriers: stream i (linear index) has npil pilots, at the flattened
\* positions i*shift, i*shift+1, ... (mod L*K).
ExplicitPP(num_tx, num_streams_per_tx, L, K, npil, shift, normalize) ==
    LET mshape == <<num_tx, num_streams_per_tx, L, K>>
        per == L * K
        mask == Tensor(mshape, [n \in 1..Prod(mshape) |->
                   LET i == (n - 1) \div per
                       pos == (n - 1) % per
                   IN IF \E j \in 0..(npil - 1) : (i * shift + j) % per = pos
                      THEN 1 ELSE 0])
        pshape == <<num_tx, num_streams_per_tx, npil>>
        pilots == Tensor(pshape, [n \in 1..Prod(pshape) |->
                     (((n - 1) \div npil) + ((n - 1) % npil)) % (NumPoints + 1)])
    IN [mask |-> mask, pilots |-> pilots, normalize |-> normalize]

\* The receive-stream orderings a StreamManagement of S streams may hold:
\* the identity, the rotation by one and the reversal of 0..S-1.
StreamOrders(S) ==
    {[k \in 1..S |-> (k - 1 + r) % S] : r \in 0..1}
    \cup {[k \in 1..S |-> S - k]}

\* The data tensor [B, num_tx, num_streams_per_tx, num_data_symbols] whose
\* symbols are pairwise different.
DataTensor(B, g) ==
    LET shape == <<B, g.num_tx, g.num_streams_per_tx, RG_num_data_symbols(g)>>
        per == Prod(Tail(shape))
    IN Tensor(shape, [i \in 1..Prod(shape) |->
                         DataVal((i - 1) \div per, (i - 1) % per)])

\* A full-width grid [1, num_tx, num_streams_per_tx, num_ofdm_symbols,
\* fft_size] whose elements are pairwise different.
FullGrid(g) ==
    LET shape == <<1, g.num_tx, g.num_streams_per_tx, g.num_ofdm_symbols,
                   g.fft_size>>
    IN Tensor(shape, [i \in 1..Prod(shape) |-> DataVal(0, i - 1)])

\* The demapper's result before its call, with the data_dim of its input
\* (0: the input has no data_dim axis).
NoOutput == [st |-> "none", val |-> NoTensor, data_dim |-> 0]

\* The grid T with a trailing data_dim axis of length d: element c of the
\* data of a resource element v is <<v, c>>.
WithDataDim(T, d) ==
    Tensor(T.shape \o <<d>>,
           [i \in 1..(Len(T.data) * d) |->
               <<T.data[((i - 1) \div d) + 1], (i - 1) % d>>])

\* No function of the Polar code utilities has been called.
NoCall == [fn |-> "none", in |-> <<>>, st |-> "none", out |-> <<>>]

\* No OFDMDemodulator has been constructed: [st, the attributes fft_size
\* and cyclic_prefix_length (a sequence; scalar tells a rank-0 value), built
\* and the attributes build sets, the length L of the last input and the
\* result res of the last call].
NoDemodulator ==
    [st |-> "none", fft_size |-> 0, cyclic_prefix_length |-> <<>>,
     scalar |-> TRUE, built |-> FALSE, rest |-> 0, num_ofdm_symbols |-> 0,
     ind |-> <<>>, L |-> 0, res |-> [st |-> "none", val |-> <<>>]]

\* No BinaryMemorylessChannel has been constructed: [st, the class cls, the
\* attributes bipolar_input and check_input, the last input x and the
\* outcome res of the last call].
NoChannel ==
    [st |-> "none", cls |-> "none", bipolar_input |-> FALSE,
     check_input |-> FALSE, x |-> <<>>, res |-> "none"]

Idle ==
    /\ rg = [st |-> "none", obj |-> NoRG]
    /\ mapper = [st |-> "none", m |-> NoMapper]
    /\ x = NoTensor
    /\ rg_out = NoResult
    /\ demapper = [st |-> "none", d |-> NoDemapper]
    /\ y = NoOutput
    /\ remover = [st |-> "none", sc_ind |-> <<>>]
    /\ z = NoResult
    /\ ofdm = NoDemodulator
    /\ chan = NoChannel

NoPat == [st |-> "none", given |-> NoPP, pp |-> NoPP]

(***************************************************************************)
(* Arguments of ResourceGrid(...) that pass its validation; a caller's     *)
(* PilotPattern instance has the shape of the grid it is given to.         *)
(***************************************************************************)
GeometryArgs(L, fft, ntx, ns, l, r, dc) ==
    LET K == fft - (IF dc THEN 1 ELSE 0) - l - r
        base == [num_ofdm_symbols |-> L, fft_size |-> fft,
                 subcarrier_spacing |-> 15, cyclic_prefix_length |-> 0,
                 num_tx |-> ntx, num_streams_per_tx |-> ns,
                 num_guard_carriers |-> <<l, r>>, dc_null |-> dc,
                 pilot_ofdm_symbol_indices |-> NoIndices,
                 pilot_pattern |-> Policy("None")]
    IN {base, [base EXCEPT !.pilot_pattern = Policy("empty")]}
       \cup {[base EXCEPT !.pilot_pattern = Policy("kronecker"),
                          !.pilot_ofdm_symbol_indices = Indices(p)] :
               p \in {<<0>>, <<0, 1>>}}
       \cup {[base EXCEPT !.pilot_pattern =
                  Instance(ExplicitPP(ntx, ns, L, K, npil, shift,
                                      (npil + shift) % 2 = 0))] :
               npil \in 1..Min(MaxPilots, L * K), shift \in 0..1}

\* args is one of the accepted argument lists.
ValidGridArgs ==
    \E L \in 1..MaxSym, fft \in 1..MaxFFT, ntx \in 1..MaxTx,
       ns \in 1..MaxStreams, dc \in BOOLEAN :
       \E l \in 0..fft, r \in 0..fft :
          /\ l + r + (IF dc THEN 1 ELSE 0) <= fft
          /\ args \in GeometryArgs(L, fft, ntx, ns, l, r, dc)

(***************************************************************************)
(* Actions.                                                                *)
(***************************************************************************)
\* rg = ResourceGrid(**args)
ConstructRG ==
    /\ rg.st = "none"
    /\ LET r == ResourceGridInit(args)
       IN rg' = IF r.ok THEN [st |-> "ok", obj |-> r.rg]
                ELSE [st |-> "error", obj |-> NoRG]
    /\ UNCHANGED <<args, mapper, x, rg_out, demapper, y, remover, z, pat, fec, ofdm, chan>>

\* mapper = ResourceGridMapper(rg)
NewMapper ==
    /\ rg.st = "ok"
    /\ mapper.st = "none"
    /\ LET r == MapperInit(rg.obj)
       IN mapper' = [st |-> IF r.ok THEN "ok" ELSE "error", m |-> r.m]
    /\ UNCHANGED <<args, rg, x, rg_out, demapper, y, remover, z, pat, fec, ofdm, chan>>

\* rg_out = mapper(x); the call reads rg.pilot_pattern.pilots
CallMapper ==
    /\ mapper.st = "ok"
    /\ rg_out.st = "none"
    /\ \E B \in 1..MaxBatch :
          /\ x' = DataTensor(B, rg.obj)
          /\ rg_out' = Result(MapperCall(mapper.m, rg.obj, x'))
    /\ rg' = [rg EXCEPT !.obj.pilot_pattern = PP_after_pilots(@)]
    /\ UNCHANGED <<args, mapper, demapper, y, remover, z, pat, fec, ofdm, chan>>

\* demapper = ResourceGridDemapper(rg, stream_management), built for a
\* mapped grid
NewDemapper ==
    /\ rg.st = "ok"
    /\ rg_out.st = "ok"
    /\ demapper.st = "none"
    /\ \E order \in StreamOrders(rg.obj.num_tx * rg.obj.num_streams_per_tx) :
          demapper' =
              [st |-> "ok",
               d |-> DemapperInit(rg.obj,
                        [stream_ind |-> order, num_tx |-> rg.obj.num_tx,
                         num_streams_per_tx |-> rg.obj.num_streams_per_tx])]
    /\ UNCHANGED <<args, rg, mapper, x, rg_out, y, remover, z, pat, fec, ofdm, chan>>

\* y = demapper(rg_out), or y = demapper(a grid like rg_out with a data_dim
\* axis); the latter for batches of one element.
CallDemapper ==
    /\ demapper.st = "ok"
    /\ rg_out.st = "ok"
    /\ y.st = "none"
    /\ \E d \in 0..(IF x.shape[1] = 1 THEN MaxDataDim ELSE 0) :
          LET y_in == IF d = 0 THEN rg_out.val ELSE WithDataDim(rg_out.val, d)
              r == Result(DemapperCall(demapper.d, rg.obj, y_in))
          IN y' = [st |-> r.st, val |-> r.val, data_dim |-> d]
    /\ UNCHANGED <<args, rg, mapper, x, rg_out, demapper, remover, z, pat, fec, ofdm, chan>>

\* remover = RemoveNulledSubcarriers(rg)
NewRemover ==
    /\ rg.st = "ok"
    /\ remover.st = "none"
    /\ LET r == RemoverInit(rg.obj)
       IN remover' = [st |-> IF r.ok THEN "ok" ELSE "error",
                      sc_ind |-> r.sc_ind]
    /\ UNCHANGED <<args, rg, mapper, x, rg_out, demapper, y, z, pat, fec, ofdm, chan>>

\* z = remover(full grid)
CallRemover ==
    /\ remover.st = "ok"
    /\ z.st = "none"
    /\ z' = Result(RemoverCall(remover, FullGrid(rg.obj)))
    /\ UNCHANGED <<args, rg, mapper, x, rg_out, demapper, y, remover, pat, fec, ofdm, chan>>

(***************************************************************************)
(* Spec: a grid, its mapper and its demapper.                              *)
(***************************************************************************)
Init ==
    /\ ValidGridArgs
    /\ Idle
    /\ pat = NoPat
    /\ fec = NoCall

Next ==
    \/ ConstructRG
    \/ NewMapper
    \/ CallMapper
    \/ NewDemapper
    \/ CallDemapper

Spec == Init /\ [][Next]_vars

(***************************************************************************)
(* SpecGrid: a grid and the removal of its nulled subcarriers.             *)
(***************************************************************************)
NextGrid ==
    \/ ConstructRG
    \/ NewRemover
    \/ CallRemover

SpecGrid == Init /\ [][NextGrid]_vars

(***************************************************************************)
(* Properties of the grid layout (SpecGrid).                               *)
(***************************************************************************)
\* The number of entries of the sequence s equal to v.
Count(s, v) == Cardinality({i \in 1..Len(s) : s[i] = v})

\* The type-grid entries of stream i (0-based linear index) of a type grid t.
StreamTypes(t, i) ==
    LET per == t.shape[3] * t.shape[4]
    IN SubSeq(t.data, i * per + 1, (i + 1) * per)

PilotOn(pp, t, s, l, k) ==
    LET K == pp.mask.shape[4]
        per == pp.mask.shape[3] * K
        base == (t * pp.mask.shape[2] + s) * per
        before == Cardinality({n \in 1..(l * K + k) : pp.mask.data[base + n] = 1})
    IN IF pp.mask.data[base + l * K + k + 1] = 1
       THEN At(PP_pilots(pp), <<t, s, before>>)
       ELSE ZeroVal

\* C6 (Kronecker non-overlap): in a grid built with pilot_pattern
\* "kronecker" and S = num_tx*num_streams_per_tx streams, on every
\* pilot-bearing OFDM symbol the effective-subcarrier offsets where stream i
\* (linear index) carries a non-zero pilot are exactly {i, i+S, i+2S, ...};
\* the sets of two streams are disjoint and their union is every offset.
KroneckerNonOverlap ==
    (rg.st = "ok" /\ args.pilot_pattern.kind = "kronecker") =>
        LET g == rg.obj
            pp == g.pilot_pattern
            S == g.num_tx * g.num_streams_per_tx
            K == num_effective_subcarriers(g)
            P == g.pilot_ofdm_symbol_indices.val
            rows == {P[a] : a \in 1..Len(P)}
            nz(i, l) == {k \in 0..(K - 1) :
                            PilotOn(pp, i \div g.num_streams_per_tx,
                                    i % g.num_streams_per_tx, l, k) # ZeroVal}
        IN \A l \in rows :
              /\ \A i \in 0..(S - 1) :
                    nz(i, l) = {k \in 0..(K - 1) : k % S = i}
              /\ \A i, j \in 0..(S - 1) : i # j => nz(i, l) \cap nz(j, l) = {}
              /\ UNION {nz(i, l) : i \in 0..(S - 1)} = 0..(K - 1)

\* A Kronecker grid with two transmitters of two streams, four effective
\* subcarriers and two pilot-bearing symbols.
KroneckerNonOverlapWitness ==
    /\ rg.st = "ok"
    /\ args.pilot_pattern.kind = "kronecker"
    /\ rg.obj.num_tx = 2
    /\ rg.obj.num_streams_per_tx = 2
    /\ num_effective_subcarriers(rg.obj) = 4
    /\ Count(rg.obj.pilot_pattern.mask.data, 1) = 32

\* C7 (guard stripping): the call of a RemoveNulledSubcarriers that could be
\* built returns, for a grid of width fft_size, a grid of width
\* num_effective_subcarriers (fft_size - num_effective_subcarriers elements
\* removed per OFDM symbol) whose k-th column is the input column
\* effective_subcarrier_ind[k].
GuardStripping ==
    (remover.st = "ok" /\ z.st # "none") =>
        LET g == rg.obj
            K == num_effective_subcarriers(g)
            esi == effective_subcarrier_ind(g)
            inshape == <<1, g.num_tx, g.num_streams_per_tx,
                         g.num_ofdm_symbols, g.fft_size>>
            rows == g.num_tx * g.num_streams_per_tx * g.num_ofdm_symbols
        IN /\ z.st = "ok"
           /\ z.val.shape = <<1, g.num_tx, g.num_streams_per_tx,
                              g.num_ofdm_symbols, K>>
           /\ Len(z.val.data) = rows * g.fft_size - rows * (g.fft_size - K)
           /\ Len(esi.val) = K
           /\ \A r \in 0..(rows - 1) : \A k \in 0..(K - 1) :
                 z.val.data[r * K + k + 1]
                    = DataVal(0, r * g.fft_size + esi.val[k + 1])

\* A stripped grid that lost two guard columns and the DC column and kept
\* two columns.
GuardStrippingWitness ==
    /\ z.st = "ok"
    /\ rg.obj.dc_null
    /\ rg.obj.num_guard_carriers = <<1, 1>>
    /\ rg.obj.fft_size = 5
    /\ z.val.shape[5] = 2

\* C8 (layout agreement), as claimed: for every constructed ResourceGrid,
\* effective_subcarrier_ind is the ascending list of the indices in
\* [0, fft_size) that are neither guard indices nor (with dc_null) dc_ind, it
\* has num_effective_subcarriers entries, and the type grid is 2 exactly at
\* the guard indices, 3 exactly at dc_ind (with dc_null) and 0 or 1 exactly
\* at the indices of effective_subcarrier_ind.
LayoutAgreement ==
    rg.st = "ok" =>
        LET g == rg.obj
            left == g.num_guard_carriers[1]
            right == g.num_guard_carriers[2]
            guards == (0..(left - 1)) \cup ((g.fft_size - right)..(g.fft_size - 1))
            dcs == IF g.dc_null THEN {dc_ind(g)} ELSE {}
            eff == (0..(g.fft_size - 1)) \ (guards \cup dcs)
            esi == effective_subcarrier_ind(g)
            t == build_type_grid(g)
            rows == g.num_tx * g.num_streams_per_tx * g.num_ofdm_symbols
            type(r, k) == t.val.data[r * g.fft_size + k + 1]
        IN /\ esi.ok
           /\ {esi.val[n] : n \in 1..Len(esi.val)} = eff
           /\ \A n \in 1..(Len(esi.val) - 1) : esi.val[n] < esi.val[n + 1]
           /\ Len(esi.val) = num_effective_subcarriers(g)
           /\ t.ok
           /\ \A r \in 0..(rows - 1) : \A k \in 0..(g.fft_size - 1) :
                 /\ type(r, k) = 2 <=> k \in guards
                 /\ type(r, k) = 3 <=> k \in dcs
                 /\ type(r, k) \in {0, 1} <=> k \in eff


(***************************************************************************)
(* Properties of the mapper and the demapper (Spec).                       *)
(***************************************************************************)
\* C1 (round trip), as claimed: for every valid ResourceGrid, every stream
\* ordering held by the demapper's stream management and every data tensor
\* x of shape [B, num_tx, num_streams_per_tx, num_data_symbols], the
\* demapper applied to the mapper's output of x returns exactly x.
RoundTrip ==
    (y.st # "none" /\ y.data_dim = 0) => (y.st = "ok" /\ y.val = x)


(***************************************************************************)
(* SpecRG: the construction of a ResourceGrid from arbitrary integer       *)
(* arguments, accepted or not.                                             *)
(***************************************************************************)
\* num_guard_carriers as a caller may pass it: two entries of any sign, or
\* a sequence that does not have two entries.
GuardArgs ==
    {<<l, r>> : l, r \in {-1, 0, 2}} \cup {<<>>, <<1>>, <<0, 0, 0>>}

\* The pilot-pattern policies: None, "empty", "kronecker" without and with
\* pilot_ofdm_symbol_indices, and a PilotPattern instance of one stream,
\* one OFDM symbol and one subcarrier.
PolicyArgs ==
    {[pilot_pattern |-> Policy("None"), pilot_ofdm_symbol_indices |-> NoIndices],
     [pilot_pattern |-> Policy("empty"), pilot_ofdm_symbol_indices |-> NoIndices],
     [pilot_pattern |-> Policy("kronecker"),
      pilot_ofdm_symbol_indices |-> NoIndices],
     [pilot_pattern |-> Policy("kronecker"),
      pilot_ofdm_symbol_indices |-> Indices(<<0>>)],
     [pilot_pattern |-> Instance(ExplicitPP(1, 1, 1, 1, 1, 0, FALSE)),
      pilot_ofdm_symbol_indices |-> NoIndices]}

InitRG ==
    /\ \E L \in -1..1, fft \in -1..(MaxFFT - 2), ntx \in -1..1, ns \in -1..1,
          dc \in BOOLEAN, spacing \in {-1, 0, 15} :
          \E cp \in {-1, 0, fft, fft + 1}, g \in GuardArgs, p \in PolicyArgs :
             args = [num_ofdm_symbols |-> L, fft_size |-> fft,
                     subcarrier_spacing |-> spacing,
                     cyclic_prefix_length |-> cp,
                     num_tx |-> ntx, num_streams_per_tx |-> ns,
                     num_guard_carriers |-> g, dc_null |-> dc,
                     pilot_ofdm_symbol_indices |-> p.pilot_ofdm_symbol_indices,
                     pilot_pattern |-> p.pilot_pattern]
    /\ Idle
    /\ pat = NoPat
    /\ fec = NoCall

NextRG == ConstructRG

SpecRG == InitRG /\ [][NextRG]_vars

\* The geometry that the arguments a describe is invalid.
InvalidGeometry(a) ==
    \/ a.num_ofdm_symbols <= 0
    \/ a.fft_size <= 0
    \/ a.cyclic_prefix_length < 0
    \/ a.cyclic_prefix_length > a.fft_size
    \/ a.num_tx <= 0
    \/ a.num_streams_per_tx <= 0
    \/ Len(a.num_guard_carriers) # 2
    \/ \E i \in 1..Len(a.num_guard_carriers) : a.num_guard_carriers[i] < 0
    \/ SumSeq(a.num_guard_carriers) + (IF a.dc_null THEN 1 ELSE 0) > a.fft_size

SpacingRejected ==
    (rg.st # "none" /\ args.subcarrier_spacing <= 0) => rg.st = "error"


(***************************************************************************)
(* SpecPP: a PilotPattern built from a caller's mask and pilots, and the   *)
(* assignments to its pilots and normalize properties.                     *)
(***************************************************************************)
\* All tensors of a shape with entries 0 and 1.
Masks(shape) ==
    {Tensor(shape, d) : d \in [1..Prod(shape) -> {0, 1}]}

\* The masks a caller may pass: [num_tx, num_streams_per_tx, 1, MaxPilots]
\* of at most MaxStreams streams in all, num_tx possibly 0, and a rank-3 and
\* a rank-5 tensor.
MaskArgs ==
    UNION {Masks(<<p[1], p[2], 1, MaxPilots>>) :
              p \in {q \in (0..MaxTx) \X (1..MaxStreams) :
                        q[1] * q[2] <= MaxStreams}}
    \cup {Fill(<<1, 1, MaxPilots>>, 1), Fill(<<1, 1, 1, 1, MaxPilots>>, 1)}

\* The pilots a caller may pass: [a, b, n] of QPSK point 1, and a rank-2 and
\* a rank-4 tensor.
PilotArgs ==
    {Fill(<<a, b, n>>, 1) : a \in 0..MaxTx, b \in 1..MaxStreams,
                            n \in 0..MaxPilots}
    \cup {Fill(<<1, 1>>, 1), Fill(<<1, 1, 1, 1>>, 1)}

\* pat = PilotPattern(mask, pilots, normalize)
ConstructPP ==
    /\ pat.st = "none"
    /\ \E mask \in MaskArgs, pilots \in PilotArgs, normalize \in BOOLEAN :
          LET r == PilotPatternInit(mask, pilots, normalize)
          IN pat' = [st |-> IF r.ok THEN "ok" ELSE "error",
                     given |-> [mask |-> mask, pilots |-> pilots,
                                normalize |-> normalize],
                     pp |-> IF r.ok THEN r.pp ELSE NoPP]
    /\ UNCHANGED <<args, rg, mapper, x, rg_out, demapper, y, remover, z, fec, ofdm, chan>>

\* pat.pilots = v
AssignPilots ==
    /\ pat.st = "ok"
    /\ \E v \in PilotArgs : pat' = [pat EXCEPT !.pp = PP_set_pilots(@, v)]
    /\ UNCHANGED <<args, rg, mapper, x, rg_out, demapper, y, remover, z, fec, ofdm, chan>>

\* pat.normalize = value
AssignNormalize ==
    /\ pat.st = "ok"
    /\ \E value \in BOOLEAN :
          pat' = [pat EXCEPT !.pp = PP_set_normalize(@, value)]
    /\ UNCHANGED <<args, rg, mapper, x, rg_out, demapper, y, remover, z, fec, ofdm, chan>>

InitPP ==
    /\ args = [num_ofdm_symbols |-> 1, fft_size |-> 1,
               subcarrier_spacing |-> 15, cyclic_prefix_length |-> 0,
               num_tx |-> 1, num_streams_per_tx |-> 1,
               num_guard_carriers |-> <<0, 0>>, dc_null |-> FALSE,
               pilot_ofdm_symbol_indices |-> NoIndices,
               pilot_pattern |-> Policy("None")]
    /\ Idle
    /\ pat = NoPat
    /\ fec = NoCall

NextPP ==
    \/ ConstructPP
    \/ AssignPilots
    \/ AssignNormalize

SpecPP == InitPP /\ [][NextPP]_vars

\* The number of set entries of the mask of stream i (1-based linear index).
SetEntries(mask, i) ==
    LET per == mask.shape[3] * mask.shape[4]
    IN Cardinality({n \in ((i - 1) * per + 1)..(i * per) : mask.data[n] = 1})

\* One of the four faults of a mask and pilots pair: a wrong rank, different
\* leading dimensions, two streams with different numbers of set mask
\* entries, or a last dimension of pilots that is not that number.
Faulty(mask, pilots) ==
    \/ Rank(mask) # 4
    \/ Rank(pilots) # 3
    \/ mask.shape[1] # pilots.shape[1]
    \/ mask.shape[2] # pilots.shape[2]
    \/ \E i, j \in 1..(mask.shape[1] * mask.shape[2]) :
          SetEntries(mask, i) # SetEntries(mask, j)
    \/ \E i \in 1..(mask.shape[1] * mask.shape[2]) :
          pilots.shape[3] # SetEntries(mask, i)

\* The mask has no (tx, stream) pair.
NoStream(mask) == Rank(mask) = 4 /\ mask.shape[1] * mask.shape[2] = 0

\* C4 (construction of a PilotPattern), as claimed: it fails whenever two
\* (tx, stream) pairs have different numbers of set mask entries, the last
\* dimension of pilots differs from the per-stream number of set mask
\* entries, the first two dimensions of mask and pilots differ, or mask is
\* not rank 4 or pilots not rank 3; it succeeds when none of them holds.
ConstructionFailsIffFaulty ==
    pat.st # "none" =>
        (pat.st = "error" <=> Faulty(pat.given.mask, pat.given.pilots))

\* C4, amended: the construction fails whenever one of the four faults
\* holds and also whenever the mask has no (tx, stream) pair; it succeeds
\* when none of these holds.
ConstructionFailsIffFaultyOrNoStream ==
    pat.st # "none" =>
        (pat.st = "error" <=> \/ Faulty(pat.given.mask, pat.given.pilots)
                              \/ NoStream(pat.given.mask))

\* A construction that failed only because the second of two streams has
\* more set mask entries than the first.
ConstructionFailsWitness ==
    /\ pat.st = "error"
    /\ pat.given.mask = Tensor(<<1, 2, 1, 2>>, <<1, 0, 1, 1>>)
    /\ pat.given.pilots.shape = <<1, 2, 2>>

\* C5 (invariants A and B), as claimed: after any construction and any
\* assignments to pilots and normalize, the first two dimensions of pilots
\* are those of mask and the last dimension of pilots is the per-stream
\* number of set mask entries, an assignment that would break this having
\* been rejected.
InvariantsAB ==
    pat.st = "ok" =>
        /\ Rank(pat.pp.pilots) = 3
        /\ SubSeq(pat.pp.pilots.shape, 1, 2) = SubSeq(pat.pp.mask.shape, 1, 2)
        /\ \A i \in 1..(pat.pp.mask.shape[1] * pat.pp.mask.shape[2]) :
              pat.pp.pilots.shape[3] = SetEntries(pat.pp.mask, i)


(***************************************************************************)
(* SpecScenario: Kronecker grids of 14 OFDM symbols and 64 subcarriers.    *)
(***************************************************************************)
\* ResourceGrid(num_ofdm_symbols=14, fft_size=64, num_tx=2,
\*              num_streams_per_tx=1, num_guard_carriers=(2,3), dc_null=True,
\*              pilot_pattern="kronecker", pilot_ofdm_symbol_indices=[2,11])
ScenarioArgs ==
    [num_ofdm_symbols |-> 14, fft_size |-> 64,
     subcarrier_spacing |-> 15, cyclic_prefix_length |-> 0,
     num_tx |-> 2, num_streams_per_tx |-> 1,
     num_guard_carriers |-> <<2, 3>>, dc_null |-> TRUE,
     pilot_ofdm_symbol_indices |-> Indices(<<2, 11>>),
     pilot_pattern |-> Policy("kronecker")]

\* The scenario and its neighbours in the guard counts, dc_null, num_tx and
\* the pilot-bearing symbols.
InitScenario ==
    /\ \E l \in 0..(MaxFFT - 2), r \in 0..(MaxFFT - 1), dc \in BOOLEAN,
          ntx \in 1..MaxTx, p \in {<<2, 11>>, <<2>>} :
          args = [ScenarioArgs EXCEPT !.num_guard_carriers = <<l, r>>,
                                      !.dc_null = dc,
                                      !.num_tx = ntx,
                                      !.pilot_ofdm_symbol_indices = Indices(p)]
    /\ Idle
    /\ pat = NoPat
    /\ fec = NoCall

NextScenario == ConstructRG

SpecScenario == InitScenario /\ [][NextScenario]_vars

\* C2 (concrete scenario), as claimed: the grid of ScenarioArgs has
\* num_effective_subcarriers = 58, num_pilot_symbols = 58 and
\* num_data_symbols = 754.
ScenarioCountsAsClaimed ==
    (rg.st # "none" /\ args = ScenarioArgs) =>
        /\ rg.st = "ok"
        /\ num_effective_subcarriers(rg.obj) = 58
        /\ RG_num_pilot_symbols(rg.obj) = 58
        /\ RG_num_data_symbols(rg.obj) = 754

\* C2, amended: the grid of ScenarioArgs has num_effective_subcarriers = 58,
\* num_pilot_symbols = 116 (the last dimension of pilots: 58 entries for
\* each of the two pilot-bearing symbols) and num_data_symbols = 696.
ScenarioCounts ==
    (rg.st # "none" /\ args = ScenarioArgs) =>
        /\ rg.st = "ok"
        /\ num_effective_subcarriers(rg.obj) = 58
        /\ RG_num_pilot_symbols(rg.obj) = 116
        /\ RG_num_data_symbols(rg.obj) = 696

\* The grid of the scenario, constructed, each stream with 58 non-zero
\* pilots among its 116.
ScenarioCountsWitness ==
    /\ rg.st = "ok"
    /\ args = ScenarioArgs
    /\ rg.obj.pilot_pattern.pilots.shape = <<2, 1, 116>>
    /\ Cardinality({n \in 1..116 : rg.obj.pilot_pattern.pilots.data[n] # 0}) = 58


(***************************************************************************)
(* Properties of the Kronecker allocation (SpecGrid).                      *)
(***************************************************************************)
\* A grid was asked for with pilot_pattern "kronecker" and a non-empty,
\* duplicate-free list of pilot symbol indices that are all in range.
KroneckerAsked ==
    /\ rg.st # "none"
    /\ args.pilot_pattern.kind = "kronecker"
    /\ LET P == args.pilot_ofdm_symbol_indices.val
       IN /\ Len(P) > 0
          /\ \A a \in 1..Len(P) : P[a] >= 0 /\ P[a] < args.num_ofdm_symbols
          /\ \A a, b \in 1..Len(P) : a # b => P[a] # P[b]

\* num_effective_subcarriers as the arguments of the grid give it.
ArgsK ==
    args.fft_size - (IF args.dc_null THEN 1 ELSE 0)
    - args.num_guard_carriers[1] - args.num_guard_carriers[2]

\* num_tx * num_streams_per_tx of the arguments of the grid.
ArgsS == args.num_tx * args.num_streams_per_tx

\* C11 (Kronecker divisibility), as claimed: the construction fails exactly
\* when (|P| * num_effective_subcarriers) mod S # 0 and succeeds whenever
\* (|P| * num_effective_subcarriers) mod S = 0.
TotalPilotsDivisibility ==
    KroneckerAsked =>
        (rg.st = "error"
           <=> (Len(args.pilot_ofdm_symbol_indices.val) * ArgsK) % ArgsS # 0)

\* C11, amended: the construction fails exactly when
\* num_effective_subcarriers mod S # 0; so it fails whenever
\* (|P| * num_effective_subcarriers) mod S # 0, and it also fails when
\* that product is a multiple of S while num_effective_subcarriers is not.
PerSymbolDivisibility ==
    KroneckerAsked =>
        LET total == Len(args.pilot_ofdm_symbol_indices.val) * ArgsK
        IN /\ total % ArgsS # 0 => rg.st = "error"
           /\ (total % ArgsS = 0 /\ ArgsK % ArgsS # 0) => rg.st = "error"
           /\ ArgsK % ArgsS = 0 => rg.st = "ok"

\* A rejected Kronecker grid of two streams, two pilot-bearing symbols and
\* three effective subcarriers: six pilots in all, a multiple of two.
PerSymbolDivisibilityWitness ==
    /\ KroneckerAsked
    /\ rg.st = "error"
    /\ Len(args.pilot_ofdm_symbol_indices.val) = 2
    /\ ArgsK = 3
    /\ ArgsS = 2

\* C12 (Kronecker divisibility as documented): the construction succeeds if
\* and only if num_effective_subcarriers is an integer multiple of
\* num_tx*num_streams_per_tx, whatever the number of pilot symbols.
DocumentedDivisibility ==
    KroneckerAsked => (rg.st = "ok" <=> \E q \in 0..ArgsK : q * ArgsS = ArgsK)

\* Accepted Kronecker grids of four streams and four effective subcarriers
\* exist with two pilot-bearing symbols.
DocumentedDivisibilityWitness ==
    /\ KroneckerAsked
    /\ rg.st = "ok"
    /\ ArgsS = 4
    /\ ArgsK = 4
    /\ Len(args.pilot_ofdm_symbol_indices.val) = 2


(***************************************************************************)
(* Properties of the mapper's output (Spec).                               *)
(***************************************************************************)
\* The number of positions before pos (0-based, within stream i) of the
\* type grid t that have type ty.
Before(t, i, pos, ty) ==
    LET per == t.shape[3] * t.shape[4]
    IN Cardinality({n \in 1..pos : t.data[i * per + n] = ty})

\* C13 (mapper guarantee): in the output of ResourceGridMapper.call, for
\* every batch element and (tx, stream), every element of type guard or DC
\* is zero, the elements of type pilot hold the pilots of the stream in
\* order, the elements of type data hold the input symbols of the stream in
\* order, and the pilot and data index lists are disjoint and cover exactly
\* the positions that are neither guard nor DC.
MapperGuarantee ==
    rg_out.st # "none" =>
        LET g == rg.obj
            t == mapper.m.rg_type
            S == g.num_tx * g.num_streams_per_tx
            per == g.num_ofdm_symbols * g.fft_size
            B == x.shape[1]
            pilots == PP_pilots(g.pilot_pattern)
            npil == pilots.shape[3]
            nds == x.shape[4]
            pset == {mapper.m.pilot_ind[n] : n \in 1..Len(mapper.m.pilot_ind)}
            dset == {mapper.m.data_ind[n] : n \in 1..Len(mapper.m.data_ind)}
        IN /\ rg_out.st = "ok"
           /\ t = build_type_grid(g).val
           /\ rg_out.val.shape = <<B, g.num_tx, g.num_streams_per_tx,
                                   g.num_ofdm_symbols, g.fft_size>>
           /\ \A b \in 0..(B - 1), i \in 0..(S - 1), pos \in 0..(per - 1) :
                 LET ty == t.data[i * per + pos + 1]
                     v == rg_out.val.data[(b * S + i) * per + pos + 1]
                 IN /\ ty \in {2, 3} => v = ZeroVal
                    /\ ty = 1 =>
                          v = pilots.data[i * npil + Before(t, i, pos, 1) + 1]
                    /\ ty = 0 =>
                          v = x.data[(b * S + i) * nds + Before(t, i, pos, 0) + 1]
           /\ pset \cap dset = {}
           /\ pset \cup dset
                 = {n \in 0..(S * per - 1) : t.data[n + 1] \notin {2, 3}}

\* A mapped grid of two batch elements that holds guards, a DC subcarrier,
\* non-zero pilots and data.
MapperGuaranteeWitness ==
    /\ rg_out.st = "ok"
    /\ x.shape[1] = 2
    /\ \A v \in 0..3 : Count(mapper.m.rg_type.data, v) > 0
    /\ \E n \in 1..Len(rg_out.val.data) : rg_out.val.data[n][1] = 2
    /\ \E n \in 1..Len(rg_out.val.data) : rg_out.val.data[n][1] = 1


(***************************************************************************)
(* Properties of the demapper's output (Spec).                             *)
(***************************************************************************)
\* C14 (demapper trailing axis), as claimed: a returning call of the
\* demapper on a rank-5 input gives a rank-4 output, and on a rank-6 input
\* of data_dim d >= 1 a rank-5 output whose last axis has length d, d = 1
\* included.
TrailingAxisKept ==
    y.st = "ok" =>
        /\ y.data_dim = 0 => Rank(y.val) = 4
        /\ y.data_dim >= 1 =>
              (Rank(y.val) = 5 /\ y.val.shape[5] = y.data_dim)


(***************************************************************************)
(* SpecLife: a constructed ResourceGrid, assignments to its pilot_pattern  *)
(* property and a mapper built from it.                                    *)
(***************************************************************************)
\* The values assigned to the pilot_pattern property of the grid g: None, a
\* policy name, or a PilotPattern instance of the shape of the grid.
PatternValues(g) ==
    {Policy("None"), Policy("empty"), Policy("kronecker")}
    \cup {Instance(ExplicitPP(g.num_tx, g.num_streams_per_tx,
                              g.num_ofdm_symbols, num_effective_subcarriers(g),
                              npil, 0, FALSE)) :
            npil \in 1..Min(MaxPilots, g.num_ofdm_symbols
                                       * num_effective_subcarriers(g))}

\* rg.pilot_pattern = value; the grid is as before when the setter raises.
AssignPilotPattern ==
    /\ rg.st = "ok"
    /\ \E value \in PatternValues(rg.obj) :
          LET r == RG_set_pilot_pattern(rg.obj, value)
          IN rg' = IF r.ok THEN [rg EXCEPT !.obj = r.rg] ELSE rg
    /\ UNCHANGED <<args, mapper, x, rg_out, demapper, y, remover, z, pat, fec, ofdm, chan>>

NextLife ==
    \/ ConstructRG
    \/ AssignPilotPattern
    \/ NewMapper

SpecLife == Init /\ [][NextLife]_vars

\* C15 (immutability), as claimed: after any sequence of public operations
\* on a constructed ResourceGrid, build_type_grid, num_pilot_symbols and
\* num_data_symbols return what they returned right after construction.
GridImmutable ==
    rg.st = "ok" =>
        LET born == ResourceGridInit(args).rg
        IN /\ build_type_grid(rg.obj) = build_type_grid(born)
           /\ RG_num_pilot_symbols(rg.obj) = RG_num_pilot_symbols(born)
           /\ RG_num_data_symbols(rg.obj) = RG_num_data_symbols(born)


(***************************************************************************)
(* SpecCalls: the calls of a mapper, a demapper and a remover built on one *)
(* grid, and reads of the grid's pilots, in any order.  The grids are      *)
(* those of at most MaxStreams streams in total and of an fft_size of at   *)
(* most MaxFFTCalls.                                                       *)
(***************************************************************************)
\* rg.pilot_pattern.pilots, read by a caller
ReadPilots ==
    /\ rg.st = "ok"
    /\ rg' = [rg EXCEPT !.obj.pilot_pattern = PP_after_pilots(@)]
    /\ UNCHANGED <<args, mapper, x, rg_out, demapper, y, remover, z, pat, fec, ofdm, chan>>

InitCalls ==
    /\ Init
    /\ args.num_tx * args.num_streams_per_tx <= MaxStreams
    /\ args.fft_size <= MaxFFTCalls

NextCalls ==
    \/ ConstructRG
    \/ ReadPilots
    \/ NewMapper
    \/ CallMapper
    \/ NewDemapper
    \/ CallDemapper
    \/ NewRemover
    \/ CallRemover

SpecCalls == InitCalls /\ [][NextCalls]_vars

EmptyAsked == args.pilot_pattern.kind \in {"None", "empty"}

\* The resource elements of the mapped grid g_out [B, num_tx,
\* num_streams_per_tx, num_ofdm_symbols, fft_size] on the subcarriers of
\* effective_subcarrier_ind all carry input data.
DataOnEffective(g, g_out) ==
    LET esi == effective_subcarrier_ind(g)
        rows == Len(g_out.data) \div g.fft_size
    IN /\ esi.ok
       /\ \A r \in 0..(rows - 1) : \A j \in 1..Len(esi.val) :
             g_out.data[r * g.fft_size + esi.val[j] + 1][1] = 1

\* C17 (empty policy), as claimed: a ResourceGrid built with pilot_pattern
\* None or "empty" is the same grid for both; its mask is all zero and it has no
\* pilots, its type grid has no element of type 1, num_pilot_symbols is 0,
\* num_data_symbols is num_ofdm_symbols*num_effective_subcarriers, and the
\* mapper's output carries input data on every effective subcarrier.
EmptyPolicy ==
    (EmptyAsked /\ rg.st = "ok") =>
        LET g == rg.obj
            pp == g.pilot_pattern
            t == build_type_grid(g)
        IN /\ ResourceGridInit([args EXCEPT !.pilot_pattern = Policy("None")])
                = ResourceGridInit([args EXCEPT !.pilot_pattern = Policy("empty")])
           /\ \A i \in 1..Len(pp.mask.data) : pp.mask.data[i] = 0
           /\ Len(pp.pilots.data) = 0
           /\ t.ok /\ Count(t.val.data, 1) = 0
           /\ RG_num_pilot_symbols(g) = 0
           /\ RG_num_data_symbols(g)
                = g.num_ofdm_symbols * num_effective_subcarriers(g)
           /\ rg_out.st # "none" =>
                 (rg_out.st = "ok" /\ DataOnEffective(g, rg_out.val))


(***************************************************************************)
(* The pilot sequences of a Kronecker pattern (SpecGrid).                  *)
(***************************************************************************)
\* The pilot of stream s (0-based linear index) of the pattern pp on
\* effective subcarrier k of the a-th (0-based) of n pilot-bearing symbols
\* of K effective subcarriers each, as pilots returns it.
PilotAt(pp, s, a, k, n, K) == PP_pilots(pp).data[s * n * K + a * K + k + 1]

\* C18 (Kronecker sequence reuse), as claimed: in the KroneckerPilotPattern
\* of a constructed grid the pilot sequence of each (tx, stream) is the same
\* on every pilot-bearing OFDM symbol: for any two pilot symbols a, b and
\* every effective subcarrier k the stream's pilot at (a, k) equals its
\* pilot at (b, k).
KroneckerReuse ==
    (KroneckerAsked /\ rg.st = "ok") =>
        LET g == rg.obj
            K == num_effective_subcarriers(g)
            n == Len(g.pilot_ofdm_symbol_indices.val)
        IN \A s \in 0..(g.num_tx * g.num_streams_per_tx - 1) :
              \A a, b \in 0..(n - 1) : \A k \in 0..(K - 1) :
                 PilotAt(g.pilot_pattern, s, a, k, n, K)
                    = PilotAt(g.pilot_pattern, s, b, k, n, K)


(***************************************************************************)
(* The Polar code utilities.  A result is [st, out] with st "ok" or the    *)
(* name of the exception raised.  A number n_lift is the rational          *)
(* [num, den] in lowest terms, den = 1 for a Python int.                   *)
(***************************************************************************)
Raised(e) == [st |-> e, out |-> <<>>]

Returned(v) == [st |-> "ok", out |-> v]

\* int(v): truncation towards zero
PyInt(v) ==
    IF v.num >= 0 THEN v.num \div v.den ELSE -((-v.num) \div v.den)

\* gm = np.array([[1, 0],[ 1, 1]])
gm == Tensor(<<2, 2>>, <<1, 0, 1, 1>>)

\* One pass of the lifting loop:
\* gm_l_new[2*j:2*j+2, 2*k:2*k+2] = gm_l[j,k]*gm for all j, k
lift_once(gm_l) ==
    LET rows == gm_l.shape[1]
        cols == gm_l.shape[2]
    IN Tensor(<<2 * rows, 2 * cols>>,
              [i \in 1..(4 * rows * cols) |->
                  LET a == (i - 1) \div (2 * cols)
                      b == (i - 1) % (2 * cols)
                  IN gm_l.data[(a \div 2) * cols + (b \div 2) + 1]
                        * gm.data[(a % 2) * 2 + (b % 2) + 1]])

\* gm_l after "for _ in range(times): ... gm_l = gm_l_new"; range(times) is
\* empty for times <= 0.
RECURSIVE lift(_, _)
lift(gm_l, times) ==
    IF times <= 0 THEN gm_l ELSE lift(lift_once(gm_l), times - 1)

\* The limit of n_lift: "if n_lift>=20".
LiftLimit == 20

\* generate_polar_transform_mat(n_lift)
generate_polar_transform_mat(n_lift) ==
    IF PyInt(n_lift) * n_lift.den # n_lift.num
    THEN Raised("ValueError")
    ELSE IF n_lift.num < 0
    THEN Raised("ValueError")
    ELSE IF n_lift.num >= LiftLimit * n_lift.den
    THEN Raised("ValueError")
    ELSE Returned(lift(gm, PyInt(n_lift) - 1))


\* np.binary_repr(i) of i >= 0: the binary digits of i, the most significant
\* first.
RECURSIVE binary_repr(_)
binary_repr(i) ==
    IF i < 2 THEN <<i>> ELSE Append(binary_repr(i \div 2), i % 2)

\* int(comb(m, i)): the binomial coefficient.
RECURSIVE comb(_, _)
comb(N, i) ==
    IF i < 0 \/ i > N THEN 0
    ELSE IF i = 0 THEN 1
    ELSE (comb(N, i - 1) * (N - i + 1)) \div i

\* A test that also freezes the rows of weight m-r.
is_frozen_le(w, r, m) == w <= m - r

\* frozen_vec = w < m-r, for one row of weight w
is_frozen(w, r, m) == w < m - r

\* generate_rm_code(r, m) for ints r, m; out is
\* [frozen_pos, info_pos, n, k, d_min].
generate_rm_code(r, m) ==
    IF r > m THEN Raised("ValueError")
    ELSE IF r < 0 THEN Raised("ValueError")
    ELSE IF m < 0 THEN Raised("ValueError")
    ELSE LET n == 2 ^ m
             d_min == 2 ^ (m - r)
             k == SumSeq([i \in 1..(r + 1) |-> comb(m, i - 1)])
             w == [i \in 1..n |-> SumSeq(binary_repr(i - 1))]
             frozen_vec == [i \in 1..n |-> is_frozen(w[i], r, m)]
             frozen_pos == WhereFrom(frozen_vec, TRUE, 1)
             info_pos == WhereFrom(frozen_vec, FALSE, 1)
             k_res == Len(info_pos)
         IN IF k_res # k
            THEN Raised("ValueError")
            ELSE Returned([frozen_pos |-> frozen_pos, info_pos |-> info_pos,
                           n |-> n, k |-> k, d_min |-> d_min])

(***************************************************************************)
(* SpecPolar: one call of a function of the Polar code utilities.          *)
(***************************************************************************)
\* The values of n_lift: the ints from -2 to MaxLift, the limit and the int
\* after it, and the halves between the ints.
LiftArgs ==
    {[num |-> v, den |-> 1] : v \in (-2..MaxLift) \cup {LiftLimit, LiftLimit + 1}}
    \cup {[num |-> 2 * v + 1, den |-> 2] : v \in -2..MaxLift}

\* The calls: generate_polar_transform_mat(n_lift) and generate_rm_code(r, m)
\* with ints r, m from -1 to MaxM.
PolarCalls ==
    {[fn |-> "generate_polar_transform_mat", in |-> <<v>>, st |-> "none",
      out |-> <<>>] : v \in LiftArgs}
    \cup {[fn |-> "generate_rm_code", in |-> <<r, m>>, st |-> "none",
           out |-> <<>>] : r \in -1..MaxM, m \in -1..MaxM}

\* fec.out = generate_polar_transform_mat(n_lift)
CallPolarTransformMat ==
    /\ fec.fn = "generate_polar_transform_mat"
    /\ fec.st = "none"
    /\ LET res == generate_polar_transform_mat(fec.in[1])
       IN fec' = [fec EXCEPT !.st = res.st, !.out = res.out]
    /\ UNCHANGED <<args, rg, mapper, x, rg_out, demapper, y, remover, z, pat, ofdm, chan>>

\* fec.out = generate_rm_code(r, m)
CallRMCode ==
    /\ fec.fn = "generate_rm_code"
    /\ fec.st = "none"
    /\ LET res == generate_rm_code(fec.in[1], fec.in[2])
       IN fec' = [fec EXCEPT !.st = res.st, !.out = res.out]
    /\ UNCHANGED <<args, rg, mapper, x, rg_out, demapper, y, remover, z, pat, ofdm, chan>>

InitPolar ==
    /\ args = NoRG
    /\ Idle
    /\ pat = NoPat
    /\ fec \in PolarCalls

NextPolar ==
    \/ CallPolarTransformMat
    \/ CallRMCode

SpecPolar == InitPolar /\ [][NextPolar]_vars

\* The matrix [[1]].
One == Tensor(<<1, 1>>, <<1>>)

\* The n-fold Kronecker power of [[1,0],[1,1]]: [[1]] for n = 0, and the
\* Kronecker product of the (n-1)-fold power with [[1,0],[1,1]] for n > 0.
RECURSIVE KroneckerPower(_)
KroneckerPower(n) ==
    IF n = 0 THEN One
    ELSE LET P == KroneckerPower(n - 1)
             rows == P.shape[1]
         IN Tensor(<<2 * rows, 2 * rows>>,
                   [i \in 1..(4 * rows * rows) |->
                       LET a == (i - 1) \div (2 * rows)
                           b == (i - 1) % (2 * rows)
                       IN IF (a % 2 = 0 /\ b % 2 = 1) THEN 0
                          ELSE P.data[(a \div 2) * rows + (b \div 2) + 1]])

\* C19, as claimed: for every integer 0 <= n_lift < 20
\* generate_polar_transform_mat returns a 0/1 matrix of shape
\* [2^n_lift, 2^n_lift] equal to the n_lift-fold Kronecker power of
\* [[1,0],[1,1]]; for a non-integer n_lift, n_lift < 0 and n_lift >= 20 it
\* raises ValueError.
PolarTransformMat ==
    (fec.fn = "generate_polar_transform_mat" /\ fec.st # "none") =>
        LET n_lift == fec.in[1]
        IN IF n_lift.den = 1 /\ n_lift.num >= 0 /\ n_lift.num < LiftLimit
           THEN /\ fec.st = "ok"
                /\ fec.out.shape = <<2 ^ n_lift.num, 2 ^ n_lift.num>>
                /\ \A i \in 1..Len(fec.out.data) : fec.out.data[i] \in {0, 1}
                /\ fec.out = KroneckerPower(n_lift.num)
           ELSE fec.st = "ValueError"

\* The information positions of the RM code of order r and length 2^m by
\* the definition of the binary weight: the indices in [0, 2^m) with at
\* least m-r binary digits 1.
Weight(i, m) == Cardinality({b \in 0..(m - 1) : (i \div (2 ^ b)) % 2 = 1})

\* The ascending sequence of the elements of the finite set S of integers.
RECURSIVE Ascending(_)
Ascending(S) ==
    IF S = {} THEN <<>>
    ELSE LET top == CHOOSE v \in S : \A u \in S : u <= v
         IN Append(Ascending(S \ {top}), top)

\* C20: for all integers 0 <= r <= m generate_rm_code(r, m) returns
\* n = 2^m, d_min = 2^(m-r), k = C(m,0) + ... + C(m,r), frozen_pos the
\* ascending indices in [0, n) of binary weight < m-r and info_pos the
\* remaining indices, ascending, with k entries in info_pos and n-k in
\* frozen_pos, and so never raises the error of an inconsistent k; for
\* r > m, r < 0 or m < 0 it raises ValueError.
RMCode ==
    (fec.fn = "generate_rm_code" /\ fec.st # "none") =>
        LET r == fec.in[1]
            m == fec.in[2]
        IN IF 0 <= r /\ r <= m
           THEN /\ fec.st = "ok"
                /\ fec.out.n = 2 ^ m
                /\ fec.out.d_min = 2 ^ (m - r)
                /\ fec.out.k
                     = Cardinality({S \in SUBSET (1..m) : Cardinality(S) <= r})
                /\ fec.out.frozen_pos
                     = Ascending({i \in 0..(2 ^ m - 1) : Weight(i, m) < m - r})
                /\ fec.out.info_pos
                     = Ascending({i \in 0..(2 ^ m - 1) : Weight(i, m) >= m - r})
                /\ Len(fec.out.info_pos) = fec.out.k
                /\ Len(fec.out.frozen_pos) = fec.out.n - fec.out.k
           ELSE fec.st = "ValueError"

\* generate_rm_code has returned a code with frozen and information
\* positions, of the largest length.
RMCodeWitness ==
    /\ fec.fn = "generate_rm_code"
    /\ fec.st = "ok"
    /\ fec.in[2] = MaxM
    /\ fec.in[1] > 0 /\ fec.in[1] < MaxM
    /\ Len(fec.out.frozen_pos) > 0
    /\ Len(fec.out.info_pos) > 0


(***************************************************************************)
(* OFDMDemodulator.  The input of a call is the time-domain signal whose   *)
(* sample of index i is i; the result is x as it is handed to the FFT: the *)
(* sequence of the OFDM symbols, each the sequence of its samples.         *)
(***************************************************************************)
\* OFDMDemodulator.build(input_shape), input_shape[-1] = L: the attributes
\* computed from the shape of the input of the first call.
DemodulatorBuild(d, L) ==
    IF d.scalar
    THEN LET piece == d.fft_size + d.cyclic_prefix_length[1]
             rest == L % piece
         IN [d EXCEPT !.built = TRUE, !.rest = rest,
                      !.num_ofdm_symbols = (L - rest) \div piece]
    ELSE LET cp == d.cyclic_prefix_length
             row_lengths == [s \in 1..Len(cp) |-> cp[s] + d.fft_size]
             offsets == [s \in 1..Len(cp) |-> SumRange(row_lengths, 1, s - 1)]
         IN [d EXCEPT !.built = TRUE,
                      !.ind = [s \in 1..Len(cp) |->
                                  [j \in 1..d.fft_size |->
                                      (j - 1) + cp[s] + offsets[s]]]]

\* OFDMDemodulator.call(inputs) up to the FFT, on the built object d:
\* [st, val].  tf.reshape raises when the sizes differ; tf.gather of an index
\* outside the input raises on a CPU and stores 0 on a GPU.
DemodulatorCall(d, inputs, device) ==
    IF d.scalar
    THEN LET cp == d.cyclic_prefix_length[1]
             piece == d.fft_size + cp
             cut == IF d.rest = 0 THEN inputs ELSE PyTake(inputs, -d.rest)
         IN IF Len(cut) # d.num_ofdm_symbols * piece
            THEN [st |-> "error", val |-> <<>>]
            ELSE [st |-> "ok",
                  val |-> [s \in 1..d.num_ofdm_symbols |->
                              PyDrop(SubSeq(cut, (s - 1) * piece + 1,
                                            s * piece), cp)]]
    ELSE IF /\ device = "CPU"
            /\ \E s \in 1..Len(d.ind) : \E j \in 1..d.fft_size :
                  d.ind[s][j] >= Len(inputs)
         THEN [st |-> "error", val |-> <<>>]
         ELSE [st |-> "ok",
               val |-> [s \in 1..Len(d.ind) |->
                          [j \in 1..d.fft_size |->
                              IF d.ind[s][j] >= Len(inputs) THEN 0
                              ELSE inputs[d.ind[s][j] + 1]]]]

\* ofdm = OFDMDemodulator(fft_size, l_min, cyclic_prefix_length) with a
\* scalar or a vector of cyclic prefix lengths
NewDemodulator ==
    /\ ofdm.st = "none"
    /\ \E fft \in 1..MaxFFT, scalar \in BOOLEAN, n \in 1..MaxSym :
          \E cp \in [1..(IF scalar THEN 1 ELSE n) -> 0..MaxCP] :
             ofdm' = [NoDemodulator EXCEPT !.st = "ok", !.fft_size = fft,
                                           !.cyclic_prefix_length = cp,
                                           !.scalar = scalar]
    /\ UNCHANGED <<args, rg, mapper, x, rg_out, demapper, y, remover, z, pat,
                   fec, chan>>

\* ofdm(inputs) for a signal of L samples; the layer runs build before its
\* first call only.
CallDemodulator ==
    /\ ofdm.st = "ok"
    /\ \E L \in 0..MaxLen, device \in {"CPU", "GPU"} :
          LET d == IF ofdm.built THEN ofdm ELSE DemodulatorBuild(ofdm, L)
          IN ofdm' = [d EXCEPT !.L = L,
                               !.res = DemodulatorCall(d, Range(0, L), device)]
    /\ UNCHANGED <<args, rg, mapper, x, rg_out, demapper, y, remover, z, pat,
                   fec, chan>>

InitDemod ==
    /\ args = NoRG
    /\ Idle
    /\ pat = NoPat
    /\ fec = NoCall

NextDemod ==
    \/ NewDemodulator
    \/ CallDemodulator

SpecDemod == InitDemod /\ [][NextDemod]_vars

\* C21 (OFDMDemodulator slicing), as claimed: with a scalar cyclic prefix cp
\* every call on an input of L samples takes floor(L/(fft_size+cp)) OFDM
\* symbols, symbol s being the input samples s*(fft_size+cp)+cp+[0, fft_size),
\* the trailing L mod (fft_size+cp) samples discarded; with a vector cp a
\* call on an input that holds all the symbols takes, as symbol s, the input
\* samples (sum of cp[k]+fft_size over k < s) + cp[s] + [0, fft_size).
DemodulatorSlicing ==
    ofdm.res.st # "none" =>
        LET fft == ofdm.fft_size
            cp == ofdm.cyclic_prefix_length
            val == ofdm.res.val
            start(s) == SumRange(cp, 1, s - 1) + (s - 1) * fft + cp[s]
        IN IF ofdm.scalar
           THEN /\ ofdm.res.st = "ok"
                /\ Len(val) = ofdm.L \div (fft + cp[1])
                /\ \A s \in 1..Len(val) :
                      val[s] = Range((s - 1) * (fft + cp[1]) + cp[1],
                                     s * (fft + cp[1]))
           ELSE (ofdm.L >= SumSeq(cp) + Len(cp) * fft)
                => /\ ofdm.res.st = "ok"
                   /\ Len(val) = Len(cp)
                   /\ \A s \in 1..Len(val) :
                         val[s] = Range(start(s), start(s) + fft)


\* C22 (mapper ordering): in the output of ResourceGridMapper.call, for
\* every batch element b and (tx, stream), the d-th input data symbol of the
\* stream is at the d-th position of type 0 of the stream's type grid in
\* row-major (OFDM symbol, then subcarrier) order, and the p-th pilot of the
\* stream, as pilots returns it, is at the p-th position of type 1 in the
\* same order, the same positions for every batch element.
MapperOrdering ==
    rg_out.st # "none" =>
        LET g == rg.obj
            t == build_type_grid(g).val
            S == g.num_tx * g.num_streams_per_tx
            per == g.num_ofdm_symbols * g.fft_size
            pilots == PP_pilots(g.pilot_pattern)
            npil == pilots.shape[3]
            nds == x.shape[4]
        IN /\ rg_out.st = "ok"
           /\ \A b \in 0..(x.shape[1] - 1), i \in 0..(S - 1) :
                 LET types == SubSeq(t.data, i * per + 1, (i + 1) * per)
                     dpos == WhereFrom(types, 0, 1)
                     ppos == WhereFrom(types, 1, 1)
                     out(pos) == rg_out.val.data[(b * S + i) * per + pos + 1]
                 IN /\ Len(dpos) = nds
                    /\ Len(ppos) = npil
                    /\ \A d \in 1..nds :
                          out(dpos[d]) = x.data[(b * S + i) * nds + d]
                    /\ \A p \in 1..npil :
                          out(ppos[p]) = pilots.data[i * npil + p]

\* A mapped grid of two batch elements and two streams whose masks differ,
\* each stream with a pilot and two or more data symbols.
MapperOrderingWitness ==
    /\ rg_out.st = "ok"
    /\ x.shape[1] = 2
    /\ x.shape[4] >= 2
    /\ rg.obj.num_tx * rg.obj.num_streams_per_tx = 2
    /\ RG_num_pilot_symbols(rg.obj) >= 1
    /\ LET m == rg.obj.pilot_pattern.mask.data
       IN SubSeq(m, 1, Len(m) \div 2) # SubSeq(m, (Len(m) \div 2) + 1, Len(m))


\* C23 (demapper stream reordering): element [b, t, s, d] of the output of
\* ResourceGridDemapper.call is taken from the receive stream of the input
\* whose flattened index rx*num_streams_per_rx + stream_per_rx is
\* stream_ind[t*num_streams_per_tx + s], at the resource element the d-th
\* data index of (t, s) names, with the same batch index b and the same
\* index c on the trailing data_dim axis.
DemapperReordering ==
    y.st = "ok" =>
        LET g == rg.obj
            sm == demapper.d.sm
            y_in == IF y.data_dim = 0 THEN rg_out.val
                    ELSE WithDataDim(rg_out.val, y.data_dim)
            K == num_effective_subcarriers(g)
            esi == effective_subcarrier_ind(g).val
            per_rx == y_in.shape[3]
        IN \A b \in 0..(y_in.shape[1] - 1), t \in 0..(sm.num_tx - 1),
              s \in 0..(sm.num_streams_per_tx - 1),
              d \in 0..(demapper.d.data_ind.shape[3] - 1),
              c \in 0..(Max(y.data_dim, 1) - 1) :
              LET src == sm.stream_ind[t * sm.num_streams_per_tx + s + 1]
                  ind == At(demapper.d.data_ind, <<t, s, d>>)
                  from == <<b, src \div per_rx, src % per_rx, ind \div K,
                            esi[(ind % K) + 1]>>
              IN (IF Rank(y.val) = 4 THEN At(y.val, <<b, t, s, d>>)
                  ELSE At(y.val, <<b, t, s, d, c>>))
                 = (IF y.data_dim = 0 THEN At(y_in, from)
                    ELSE At(y_in, from \o <<c>>))

\* A demapper with a stream order other than the identity has returned the
\* data of an input with a data_dim axis of two entries.
DemapperReorderingWitness ==
    /\ y.st = "ok"
    /\ y.data_dim = 2
    /\ demapper.d.sm.num_tx = 2
    /\ demapper.d.sm.stream_ind[1] # 0
    /\ demapper.d.data_ind.shape[3] >= 2


\* C24 (demapper data indices): for every (tx, stream) the index list that
\* ResourceGridDemapper precomputes has num_data_symbols entries, is
\* strictly ascending, and its entries are exactly the flattened positions
\* (OFDM symbol * num_effective_subcarriers + effective subcarrier) at
\* which the pilot mask of that stream is 0, also when the masks of the
\* streams differ.
DemapperDataIndices ==
    demapper.st = "ok" =>
        LET g == rg.obj
            mask == g.pilot_pattern.mask
            per == mask.shape[3] * mask.shape[4]
            nds == demapper.d.data_ind.shape[3]
        IN /\ nds = RG_num_data_symbols(g)
           /\ \A i \in 0..(g.num_tx * g.num_streams_per_tx - 1) :
                 LET row == SubSeq(demapper.d.data_ind.data,
                                   i * nds + 1, (i + 1) * nds)
                 IN /\ \A d \in 1..(nds - 1) : row[d] < row[d + 1]
                    /\ {row[d] : d \in 1..nds}
                          = {n \in 0..(per - 1) : mask.data[i * per + n + 1] = 0}

\* A demapper of two streams with different masks, each with a pilot before
\* one of its two or more data symbols.
DemapperDataIndicesWitness ==
    /\ demapper.st = "ok"
    /\ rg.obj.num_tx * rg.obj.num_streams_per_tx = 2
    /\ demapper.d.data_ind.shape[3] >= 2
    /\ LET m == rg.obj.pilot_pattern.mask.data
       IN /\ SubSeq(m, 1, Len(m) \div 2) # SubSeq(m, (Len(m) \div 2) + 1, Len(m))
          /\ m[1] = 1


\* C25 (Kronecker mask): the mask of every constructed KroneckerPilotPattern
\* has an entry for every (tx, stream), OFDM symbol and effective
\* subcarrier; the entry is set on every OFDM symbol of
\* pilot_ofdm_symbol_indices, for every (tx, stream) and every effective
\* subcarrier, and clear everywhere else; every (tx, stream) has the same
\* number of set entries, the last dimension of pilots.
KroneckerMask ==
    (args.pilot_pattern.kind = "kronecker" /\ rg.st = "ok") =>
        LET g == rg.obj
            pp == g.pilot_pattern
            P == g.pilot_ofdm_symbol_indices.val
            K == g.fft_size - g.num_guard_carriers[1] - g.num_guard_carriers[2]
                 - (IF g.dc_null THEN 1 ELSE 0)
            shape == <<g.num_tx, g.num_streams_per_tx, g.num_ofdm_symbols, K>>
        IN /\ pp.mask.shape = shape
           /\ \A n \in 1..Prod(shape) :
                 pp.mask.data[n] =
                    (IF \E a \in 1..Len(P) : P[a] = Unravel(n - 1, shape)[3]
                     THEN 1 ELSE 0)
           /\ \A i \in 1..(g.num_tx * g.num_streams_per_tx) :
                 SetEntries(pp.mask, i) = pp.pilots.shape[3]

\* A Kronecker pattern of two streams with a pilot-bearing and a pilot-free
\* OFDM symbol on a grid with a guard carrier and a nulled DC subcarrier.
KroneckerMaskWitness ==
    /\ args.pilot_pattern.kind = "kronecker"
    /\ rg.st = "ok"
    /\ rg.obj.num_tx * rg.obj.num_streams_per_tx = 2
    /\ rg.obj.num_ofdm_symbols = 2
    /\ Len(rg.obj.pilot_ofdm_symbol_indices.val) = 1
    /\ rg.obj.dc_null
    /\ rg.obj.num_guard_carriers[1] > 0
    /\ rg.obj.pilot_pattern.pilots.shape[3] > 0


\* C26 (derived counts match the type grid), as claimed: for every
\* constructed ResourceGrid and every (tx, stream), the type grid has
\* num_data_symbols entries of type 0, num_pilot_symbols entries of type 1
\* and num_zero_symbols entries of type 2 or 3; num_data_symbols of the grid
\* is num_data_symbols of its pilot pattern, and the three counts add up to
\* num_resource_elements.
DerivedCounts ==
    rg.st = "ok" =>
        LET g == rg.obj
            t == build_type_grid(g)
        IN /\ t.ok
           /\ RG_num_data_symbols(g) = PP_num_data_symbols(g.pilot_pattern)
           /\ RG_num_data_symbols(g) + RG_num_pilot_symbols(g)
                 + RG_num_zero_symbols(g) = RG_num_resource_elements(g)
           /\ \A i \in 0..(g.num_tx * g.num_streams_per_tx - 1) :
                 LET types == StreamTypes(t.val, i)
                 IN /\ Count(types, 0) = RG_num_data_symbols(g)
                    /\ Count(types, 1) = RG_num_pilot_symbols(g)
                    /\ Count(types, 2) + Count(types, 3)
                          = RG_num_zero_symbols(g)


(***************************************************************************)
(* BinaryMemorylessChannel and its subclasses.  The input x of a call is a *)
(* float tensor, given as the sequence of its values; the outcome of a     *)
(* call is "ok" or "error" (the failed assertion "Input must be binary."). *)
(***************************************************************************)
\* BinaryMemorylessChannel._check_inputs(x) on the channel c: [ok, c], the
\* channel with check_input cleared after a check that passed.
BMC_check_inputs(c, inputs) ==
    IF c.check_input
    THEN LET values == IF c.bipolar_input THEN {-1, 1} ELSE {0, 1}
         IN IF \A n \in 1..Len(inputs) : inputs[n] \in values
            THEN [ok |-> TRUE, c |-> [c EXCEPT !.check_input = FALSE]]
            ELSE [ok |-> FALSE, c |-> c]
    ELSE [ok |-> TRUE, c |-> c]

\* chan = BinaryMemorylessChannel(bipolar_input=...), or one of its
\* subclasses; __init__ sets check_input
NewChannel ==
    /\ chan.st = "none"
    /\ \E cls \in {"BinaryMemorylessChannel", "BinarySymmetricChannel",
                   "BinaryZChannel", "BinaryErasureChannel"},
          bipolar \in BOOLEAN :
          chan' = [NoChannel EXCEPT !.st = "ok", !.cls = cls,
                                    !.bipolar_input = bipolar,
                                    !.check_input = TRUE]
    /\ UNCHANGED <<args, rg, mapper, x, rg_out, demapper, y, remover, z, pat,
                   fec, ofdm>>

\* chan(x, pb): the call of every class hands x to _check_inputs before it
\* samples the errors.
CallChannel ==
    /\ chan.st = "ok"
    /\ \E n \in 1..MaxBatch : \E v \in [1..n -> {-1, 0, 1, 2}] :
          LET r == BMC_check_inputs(chan, v)
          IN chan' = [r.c EXCEPT !.x = v,
                                 !.res = IF r.ok THEN "ok" ELSE "error"]
    /\ UNCHANGED <<args, rg, mapper, x, rg_out, demapper, y, remover, z, pat,
                   fec, ofdm>>

InitChannel == InitDemod

NextChannel ==
    \/ NewChannel
    \/ CallChannel

SpecChannel == InitChannel /\ [][NextChannel]_vars

\* C27 (binary-input check on every call), as claimed: every call of a
\* BinaryMemorylessChannel or of one of its subclasses whose input holds a
\* value outside {0,1} in binary mode, or outside {-1,1} in bipolar mode,
\* fails with the error "Input must be binary", whatever calls preceded it.
BinaryInputChecked ==
    (chan.res # "none"
     /\ \E n \in 1..Len(chan.x) :
           chan.x[n] \notin (IF chan.bipolar_input THEN {-1, 1} ELSE {0, 1}))
    => chan.res = "error"


(***************************************************************************)
(* SpecMapLife: a grid, a mapper built on it, assignments to the grid's    *)
(* pilot_pattern before and after the mapper is built, and then a call of  *)
(* the mapper on data sized for the grid as it is at the call.             *)
(***************************************************************************)
\* rg.pilot_pattern = value, before the mapper is called
AssignBeforeCall ==
    /\ rg_out.st = "none"
    /\ AssignPilotPattern

NextMapLife ==
    \/ ConstructRG
    \/ AssignBeforeCall
    \/ NewMapper
    \/ CallMapper

SpecMapLife == InitCalls /\ [][NextMapLife]_vars

\* C28 (mapper stays consistent with its grid), as claimed: after any
\* sequence of assignments to the grid's pilot pattern, a later mapper call
\* returns a grid that holds the grid's current pilots, in order, at exactly
\* the positions the grid's current build_type_grid marks as type 1, the
\* data, in order, at exactly the positions it marks as type 0, and zeros
\* elsewhere.
MapperFollowsGrid ==
    rg_out.st # "none" =>
        LET g == rg.obj
            t == build_type_grid(g).val
            S == g.num_tx * g.num_streams_per_tx
            per == g.num_ofdm_symbols * g.fft_size
            B == x.shape[1]
            pilots == PP_pilots(g.pilot_pattern)
            npil == pilots.shape[3]
            nds == x.shape[4]
        IN /\ rg_out.st = "ok"
           /\ \A b \in 0..(B - 1), i \in 0..(S - 1), pos \in 0..(per - 1) :
                 LET ty == t.data[i * per + pos + 1]
                     v == rg_out.val.data[(b * S + i) * per + pos + 1]
                 IN /\ ty = 1 =>
                          v = pilots.data[i * npil + Before(t, i, pos, 1) + 1]
                    /\ ty = 0 =>
                          v = x.data[(b * S + i) * nds + Before(t, i, pos, 0) + 1]
                    /\ ty \in {2, 3} => v = ZeroVal


\* C29 (pilot pattern matches the geometry), as claimed: the mask of the
\* pilot pattern of every constructed ResourceGrid, a caller-supplied
\* PilotPattern instance included, has the shape [num_tx,
\* num_streams_per_tx, num_ofdm_symbols, num_effective_subcarriers] of the
\* grid; a pattern of another shape is rejected.
PatternMatchesGeometry ==
    rg.st = "ok" =>
        rg.obj.pilot_pattern.mask.shape
            = <<rg.obj.num_tx, rg.obj.num_streams_per_tx,
                rg.obj.num_ofdm_symbols, num_effective_subcarriers(rg.obj)>>


\* C30 (every geometry allowed by the data model constructs), as claimed:
\* with num_ofdm_symbols > 0, fft_size > 0, 0 <= cyclic_prefix_length <=
\* fft_size, num_tx > 0, num_streams_per_tx > 0, guards left >= 0 and
\* right >= 0 and left + right + dc_null <= fft_size, the boundary of zero
\* effective subcarriers included, the construction of a ResourceGrid with
\* the pilot policy None or "empty" succeeds.
AllowedGeometryConstructs ==
    (/\ rg.st # "none"
     /\ args.pilot_pattern.kind \in {"None", "empty"}
     /\ args.num_ofdm_symbols > 0
     /\ args.fft_size > 0
     /\ args.cyclic_prefix_length >= 0
     /\ args.cyclic_prefix_length <= args.fft_size
     /\ args.num_tx > 0
     /\ args.num_streams_per_tx > 0
     /\ Len(args.num_guard_carriers) = 2
     /\ \A i \in 1..Len(args.num_guard_carriers) :
           args.num_guard_carriers[i] >= 0
     /\ SumSeq(args.num_guard_carriers) + (IF args.dc_null THEN 1 ELSE 0)
           <= args.fft_size)
    => rg.st = "ok"

====
